---- MODULE Spec2Model ----
(***************************************************************************)
(* Model of the NUT (Network UPS Tools) client of the toolbox:             *)
(*   nut/nut.rs      wire protocol client (NutClient, UpsInfo)             *)
(*   nut/connect.rs  connect form                                          *)
(*   nut/monitor.rs  monitor and its polling task                          *)
(*   nut.rs          controller combining the two                          *)
(* and of two tools beside it:                                             *)
(*   eml.rs                  quoted-printable encoding and decoding        *)
(*   path_length_checker.rs  scanner for paths over a length limit         *)
(* Strings are sequences of one-character strings, so that the prefix      *)
(* tests, the splitting and the unquoting are computed as the code does.   *)
(***************************************************************************)
EXTENDS Integers, Sequences, FiniteSets, TLC

\* ------------------------------------------------------------------------
\* Bounds of the model
\* ------------------------------------------------------------------------
\* number of steps (messages handled, steps of tasks) of a run
MaxSteps == 11
\* number of connect attempts of a run
MaxAttempts == 3
\* number of body lines of a generated server response, and of lines the
\* server sends during a handshake
MaxBody == 2
\* number of characters of a value before the server escapes it
MaxStr == 3
\* number of characters of a text given to qp_encode after its padding
MaxQp == 3
\* number of scans started in a run of the path-length scanner
MaxScans == 2
\* number of folder dialogs open at once
MaxDialogs == 1
\* number of steps (messages handled, steps of tasks) of a run of the scanner
MaxScanSteps == 16

\* ------------------------------------------------------------------------
\* Strings
\* ------------------------------------------------------------------------
\* the characters used, in ASCII order
Chars ==
  << "\n", "\r", " ", "\"", ".", "0", "1", "A", "B", "D", "E", "G", "I", "K", "L",
     "N", "O", "P", "R", "S", "T", "U", "V", "X", "\\", "a", "b", "c", "d",
     "e", "f", "g", "h", "i", "j", "k", "l", "m", "n", "o", "p", "q", "r",
     "s", "t", "u", "v", "w", "x", "y", "z" >>

CharCode(c) == CHOOSE i \in 1..Len(Chars) : Chars[i] = c

SP == " "
QUOTE == "\""
BSLASH == "\\"
LF == "\n"
CR == "\r"

kLIST_UPS == << "L", "I", "S", "T", " ", "U", "P", "S" >>
kBEGIN_LIST_UPS == << "B", "E", "G", "I", "N", " " >> \o kLIST_UPS
kEND_LIST_UPS == << "E", "N", "D", " " >> \o kLIST_UPS
kBEGIN_LIST_VAR == << "B", "E", "G", "I", "N", " ", "L", "I", "S", "T", " ", "V", "A", "R" >>
kEND_LIST_VAR == << "E", "N", "D", " ", "L", "I", "S", "T", " ", "V", "A", "R" >>
kOK == << "O", "K" >>
kUPS_ == << "U", "P", "S", " " >>
kVAR_ == << "V", "A", "R", " " >>

\* str::starts_with
starts_with(s, p) == Len(s) >= Len(p) /\ SubSeq(s, 1, Len(p)) = p

\* str::ends_with for a one-character pattern
ends_with(s, c) == Len(s) >= 1 /\ s[Len(s)] = c

\* position of the first occurrence of character c in s, 0 when absent
find_char(s, c) ==
  IF \E i \in 1..Len(s) : s[i] = c
  THEN CHOOSE i \in 1..Len(s) : s[i] = c /\ \A j \in 1..(i - 1) : s[j] # c
  ELSE 0

\* str::splitn(n, ' '): at most n parts, the last one holding the remainder
RECURSIVE splitn(_, _)
splitn(n, s) ==
  IF n <= 1 \/ find_char(s, SP) = 0
  THEN << s >>
  ELSE << SubSeq(s, 1, find_char(s, SP) - 1) >>
         \o splitn(n - 1, SubSeq(s, find_char(s, SP) + 1, Len(s)))

\* str::replace for a two-character pattern <<a, b>> replaced by <<r>>:
\* non-overlapping matches, scanned from the left
RECURSIVE replace2(_, _, _, _)
replace2(s, a, b, r) ==
  IF Len(s) < 2 THEN s
  ELSE IF s[1] = a /\ s[2] = b
       THEN << r >> \o replace2(SubSeq(s, 3, Len(s)), a, b, r)
       ELSE << s[1] >> \o replace2(Tail(s), a, b, r)

\* lexicographic order of strings (String::cmp, byte-wise)
RECURSIVE str_less(_, _)
str_less(s, t) ==
  IF Len(t) = 0 THEN FALSE
  ELSE IF Len(s) = 0 THEN TRUE
  ELSE IF s[1] = t[1] THEN str_less(Tail(s), Tail(t))
  ELSE CharCode(s[1]) < CharCode(t[1])

\* order of (String, String) pairs
pair_less(p, q) == str_less(p[1], q[1]) \/ (p[1] = q[1] /\ str_less(p[2], q[2]))

\* Vec::sort of a vector of pairs holding the elements of the set S
RECURSIVE sort_pairs(_)
sort_pairs(S) ==
  IF S = {} THEN << >>
  ELSE LET m == CHOOSE p \in S : \A q \in S \ {p} : pair_less(p, q)
       IN << m >> \o sort_pairs(S \ {m})

\* ------------------------------------------------------------------------
\* nut/nut.rs: protocol operations
\* ------------------------------------------------------------------------
\* io::Error values
ErrClosed == [kind |-> "UnexpectedEof", msg |-> << "Connection closed by server" >>]
ErrUnexpected(line) == [kind |-> "Other", msg |-> << "Unexpected response: ", line >>]
ErrMissing(what) == [kind |-> "Other", msg |-> << what >>]
ErrExpectedOk(line) == [kind |-> "Other", msg |-> << "Expected OK, got: ", line >>]

\* Option: None is the empty sequence, Some(x) the sequence holding x
None == << >>
Some(x) == << x >>

\* io::Result; nread counts the lines the operation has read from the socket
Ok(v, n) == [ok |-> TRUE, val |-> v, nread |-> n]
Err(e, n) == [ok |-> FALSE, err |-> e, nread |-> n]

\* strip_quotes, but only the escaped quotes are unescaped
strip_quotes_quotes_only(s) ==
  IF Len(s) >= 2 /\ s[1] = QUOTE /\ ends_with(s, QUOTE)
  THEN replace2(SubSeq(s, 2, Len(s) - 1), BSLASH, QUOTE, QUOTE)
  ELSE s

\* strip_quotes: strip the outer quotes and unescape \" and \\ inside
strip_quotes(s) ==
  IF Len(s) >= 2 /\ s[1] = QUOTE /\ ends_with(s, QUOTE)
  THEN replace2(replace2(SubSeq(s, 2, Len(s) - 1), BSLASH, QUOTE, QUOTE),
                BSLASH, BSLASH, BSLASH)
  ELSE s

\* the tail of read_line: drop every trailing '\n' and '\r'
RECURSIVE trim_eol(_)
trim_eol(line) ==
  IF ends_with(line, LF) \/ ends_with(line, CR)
  THEN trim_eol(SubSeq(line, 1, Len(line) - 1))
  ELSE line

\* NutClient::read_line on the lines the server still sends before it closes
\* the connection: wire is a sequence of raw lines, pos the lines read so far.
\* A read past the last line is the zero-byte read.
read_line(wire, pos) ==
  IF pos >= Len(wire) THEN Err(ErrClosed, pos) ELSE Ok(trim_eol(wire[pos + 1]), pos + 1)

\* list_ups_loop, but a device whose name was already listed is not added again
RECURSIVE list_ups_loop_dedup(_, _, _)
list_ups_loop_dedup(wire, pos, result) ==
  LET r == read_line(wire, pos) IN
  IF ~r.ok THEN r
  ELSE IF starts_with(r.val, kEND_LIST_UPS) THEN Ok(result, r.nread)
  ELSE IF starts_with(r.val, kUPS_)
       THEN LET parts == splitn(3, r.val) IN
            IF Len(parts) < 2 THEN Err(ErrMissing("Missing UPS name"), r.nread)
            ELSE IF Len(parts) < 3 THEN Err(ErrMissing("Missing UPS desc"), r.nread)
            ELSE IF \E i \in 1..Len(result) : result[i][1] = parts[2]
                 THEN list_ups_loop_dedup(wire, r.nread, result)
            ELSE list_ups_loop_dedup(wire, r.nread,
                                     Append(result, << parts[2], strip_quotes(parts[3]) >>))
       ELSE list_ups_loop_dedup(wire, r.nread, result)

\* list_ups_loop, but when the connection is closed the devices read so far
\* are returned
RECURSIVE list_ups_loop_partial(_, _, _)
list_ups_loop_partial(wire, pos, result) ==
  LET r == read_line(wire, pos) IN
  IF ~r.ok THEN Ok(result, r.nread)
  ELSE IF starts_with(r.val, kEND_LIST_UPS) THEN Ok(result, r.nread)
  ELSE IF starts_with(r.val, kUPS_)
       THEN LET parts == splitn(3, r.val) IN
            IF Len(parts) < 2 THEN Err(ErrMissing("Missing UPS name"), r.nread)
            ELSE IF Len(parts) < 3 THEN Err(ErrMissing("Missing UPS desc"), r.nread)
            ELSE list_ups_loop_partial(wire, r.nread,
                                       Append(result, << parts[2], strip_quotes(parts[3]) >>))
       ELSE list_ups_loop_partial(wire, r.nread, result)

\* list_ups_loop, but a line with the prefix "UPS " that lacks a field is
\* skipped
RECURSIVE list_ups_loop_skip(_, _, _)
list_ups_loop_skip(wire, pos, result) ==
  LET r == read_line(wire, pos) IN
  IF ~r.ok THEN r
  ELSE IF starts_with(r.val, kEND_LIST_UPS) THEN Ok(result, r.nread)
  ELSE IF starts_with(r.val, kUPS_) /\ Len(splitn(3, r.val)) = 3
       THEN list_ups_loop_skip(wire, r.nread,
                               Append(result, << splitn(3, r.val)[2],
                                                 strip_quotes(splitn(3, r.val)[3]) >>))
       ELSE list_ups_loop_skip(wire, r.nread, result)

\* list_ups_loop, but the list ends with the first line that is no device
RECURSIVE list_ups_loop_early(_, _, _)
list_ups_loop_early(wire, pos, result) ==
  LET r == read_line(wire, pos) IN
  IF ~r.ok THEN r
  ELSE IF starts_with(r.val, kUPS_)
       THEN LET parts == splitn(3, r.val) IN
            IF Len(parts) < 2 THEN Err(ErrMissing("Missing UPS name"), r.nread)
            ELSE IF Len(parts) < 3 THEN Err(ErrMissing("Missing UPS desc"), r.nread)
            ELSE list_ups_loop_early(wire, r.nread,
                                     Append(result, << parts[2], strip_quotes(parts[3]) >>))
       ELSE Ok(result, r.nread)

\* the loop of NutClient::list_ups, having read pos lines and collected result
RECURSIVE list_ups_loop(_, _, _)
list_ups_loop(wire, pos, result) ==
  LET r == read_line(wire, pos) IN
  IF ~r.ok THEN r
  ELSE IF starts_with(r.val, kEND_LIST_UPS) THEN Ok(result, r.nread)
  ELSE IF starts_with(r.val, kUPS_)
       THEN LET parts == splitn(3, r.val) IN
            IF Len(parts) < 2 THEN Err(ErrMissing("Missing UPS name"), r.nread)
            ELSE IF Len(parts) < 3 THEN Err(ErrMissing("Missing UPS desc"), r.nread)
            ELSE list_ups_loop(wire, r.nread,
                               Append(result, << parts[2], strip_quotes(parts[3]) >>))
       ELSE list_ups_loop(wire, r.nread, result)

\* list_ups, but the first line is taken as the start of the list whatever
\* it is
list_ups_lenient(wire) ==
  LET first == read_line(wire, 0) IN
  IF ~first.ok THEN first
  ELSE list_ups_loop(wire, first.nread, << >>)

\* NutClient::list_ups on the reply the server gives to LIST UPS
list_ups(wire) ==
  LET first == read_line(wire, 0) IN
  IF ~first.ok THEN first
  ELSE IF ~starts_with(first.val, kBEGIN_LIST_UPS)
       THEN Err(ErrUnexpected(first.val), first.nread)
       ELSE list_ups_loop(wire, first.nread, << >>)

\* NutClient::expect_ok
expect_ok(wire, pos) ==
  LET r == read_line(wire, pos) IN
  IF ~r.ok THEN r
  ELSE IF starts_with(r.val, kOK) THEN Ok(<< >>, r.nread)
  ELSE Err(ErrExpectedOk(r.val), r.nread)

\* io::Error values of the socket: TcpStream::connect and write_all / flush
ErrRefused == [kind |-> "ConnectionRefused", msg |-> << "Connection refused" >>]
ErrWrite == [kind |-> "BrokenPipe", msg |-> << "Broken pipe" >>]

\* commands of the handshake
CmdUsername(username) == << "USERNAME", username >>
CmdPassword(password) == << "PASSWORD", password >>

\* a command written by send_command, with the number of lines that had been
\* read from the socket when it was written
Sent(cmd, at) == [cmd |-> cmd, at |-> at]

\* io::Result of the handshake, with the commands it has written
HsOk(n, sent) == [ok |-> TRUE, nread |-> n, sent |-> sent]
HsErr(e, n, sent) == [ok |-> FALSE, err |-> e, nread |-> n, sent |-> sent]

\* authenticate, but PASSWORD is sent whether the password is empty or not
authenticate_always_password(username, password, wire, wfail) ==
  IF wfail = 1 THEN HsErr(ErrWrite, 0, << >>)
  ELSE LET s1 == << Sent(CmdUsername(username), 0) >>
           a1 == expect_ok(wire, 0)
       IN IF ~a1.ok THEN HsErr(a1.err, a1.nread, s1)
          ELSE IF wfail = 2 THEN HsErr(ErrWrite, a1.nread, s1)
          ELSE LET s2 == Append(s1, Sent(CmdPassword(password), a1.nread))
                   a2 == expect_ok(wire, a1.nread)
               IN IF ~a2.ok THEN HsErr(a2.err, a2.nread, s2) ELSE HsOk(a2.nread, s2)

\* authenticate, but PASSWORD is written right after USERNAME and the two
\* replies are read afterwards
authenticate_pipelined(username, password, wire, wfail) ==
  IF wfail = 1 THEN HsErr(ErrWrite, 0, << >>)
  ELSE LET s1 == << Sent(CmdUsername(username), 0) >> IN
       IF password = << >>
       THEN LET a1 == expect_ok(wire, 0) IN
            IF ~a1.ok THEN HsErr(a1.err, a1.nread, s1) ELSE HsOk(a1.nread, s1)
       ELSE IF wfail = 2 THEN HsErr(ErrWrite, 0, s1)
       ELSE LET s2 == Append(s1, Sent(CmdPassword(password), 0))
                a1 == expect_ok(wire, 0)
            IN IF ~a1.ok THEN HsErr(a1.err, a1.nread, s2)
               ELSE LET a2 == expect_ok(wire, a1.nread) IN
                    IF ~a2.ok THEN HsErr(a2.err, a2.nread, s2) ELSE HsOk(a2.nread, s2)

\* NutClient::authenticate on the lines the server sends during the
\* handshake; wfail is the number of the send_command that fails (0: none)
authenticate(username, password, wire, wfail) ==
  IF wfail = 1 THEN HsErr(ErrWrite, 0, << >>)
  ELSE LET s1 == << Sent(CmdUsername(username), 0) >>
           a1 == expect_ok(wire, 0)
       IN IF ~a1.ok THEN HsErr(a1.err, a1.nread, s1)
          ELSE IF password = << >> THEN HsOk(a1.nread, s1)
          ELSE IF wfail = 2 THEN HsErr(ErrWrite, a1.nread, s1)
          ELSE LET s2 == Append(s1, Sent(CmdPassword(password), a1.nread))
                   a2 == expect_ok(wire, a1.nread)
               IN IF ~a2.ok THEN HsErr(a2.err, a2.nread, s2) ELSE HsOk(a2.nread, s2)

\* NutClient::connect; tcp tells whether TcpStream::connect succeeds
connect(tcp, username, password, wire, wfail) ==
  IF ~tcp THEN HsErr(ErrRefused, 0, << >>)
  ELSE IF username # << >> THEN authenticate(username, password, wire, wfail)
  ELSE HsOk(0, << >>)

\* HashMap::insert
map_insert(m, k, v) == [x \in DOMAIN m \cup {k} |-> IF x = k THEN v ELSE m[x]]

\* HashMap::remove, the map that is left
map_remove(m, k) == [x \in DOMAIN m \ {k} |-> m[x]]

EmptyMap == [x \in {} |-> << >>]

\* list_vars_loop, but without the comparison of the device name
RECURSIVE list_vars_loop_any(_, _, _, _)
list_vars_loop_any(ups_name, wire, pos, result) ==
  LET r == read_line(wire, pos) IN
  IF ~r.ok THEN r
  ELSE IF starts_with(r.val, kEND_LIST_VAR) THEN Ok(result, r.nread)
  ELSE IF starts_with(r.val, kVAR_)
       THEN LET parts == splitn(4, r.val) IN
            IF Len(parts) < 2 THEN Err(ErrMissing("Missing UPS name"), r.nread)
            ELSE IF Len(parts) < 3 THEN Err(ErrMissing("Missing var name"), r.nread)
            ELSE IF Len(parts) < 4 THEN Err(ErrMissing("Missing var value"), r.nread)
            ELSE list_vars_loop_any(ups_name, wire, r.nread,
                                    map_insert(result, parts[3], strip_quotes(parts[4])))
       ELSE list_vars_loop_any(ups_name, wire, r.nread, result)

\* the loop of NutClient::list_vars_raw
RECURSIVE list_vars_loop(_, _, _, _)
list_vars_loop(ups_name, wire, pos, result) ==
  LET r == read_line(wire, pos) IN
  IF ~r.ok THEN r
  ELSE IF starts_with(r.val, kEND_LIST_VAR) THEN Ok(result, r.nread)
  ELSE IF starts_with(r.val, kVAR_)
       THEN LET parts == splitn(4, r.val) IN
            IF Len(parts) < 2 THEN Err(ErrMissing("Missing UPS name"), r.nread)
            ELSE IF parts[2] # ups_name
                 THEN list_vars_loop(ups_name, wire, r.nread, result)
            ELSE IF Len(parts) < 3 THEN Err(ErrMissing("Missing var name"), r.nread)
            ELSE IF Len(parts) < 4 THEN Err(ErrMissing("Missing var value"), r.nread)
            ELSE list_vars_loop(ups_name, wire, r.nread,
                                map_insert(result, parts[3], strip_quotes(parts[4])))
       ELSE list_vars_loop(ups_name, wire, r.nread, result)

\* NutClient::list_vars_raw on the reply the server gives to LIST VAR <ups_name>
list_vars_raw(ups_name, wire) ==
  LET first == read_line(wire, 0) IN
  IF ~first.ok THEN first
  ELSE IF ~starts_with(first.val, kBEGIN_LIST_VAR)
       THEN Err(ErrUnexpected(first.val), first.nread)
       ELSE list_vars_loop(ups_name, wire, first.nread, EmptyMap)


\* sorted_status, but in descending order
sorted_status_desc(table) ==
  LET v == sort_pairs({ << k, table[k] >> : k \in DOMAIN table })
  IN [i \in 1..Len(v) |-> v[Len(v) + 1 - i]]

\* into_iter().collect::<Vec<_>>() followed by sort(): the entries of a map
\* as a sorted vector
sorted_status(table) == sort_pairs({ << k, table[k] >> : k \in DOMAIN table })

\* the keys taken by UpsInfo::from_var_map, in the order they are taken
WellKnownKeys ==
  << << "u", "p", "s", ".", "s", "t", "a", "t", "u", "s" >>,
     << "u", "p", "s", ".", "m", "o", "d", "e", "l" >>,
     << "u", "p", "s", ".", "m", "f", "r" >>,
     << "u", "p", "s", ".", "s", "e", "r", "i", "a", "l" >>,
     << "u", "p", "s", ".", "t", "y", "p", "e" >>,
     << "u", "p", "s", ".", "l", "o", "a", "d" >>,
     << "u", "p", "s", ".", "r", "e", "a", "l", "p", "o", "w", "e", "r" >>,
     << "b", "a", "t", "t", "e", "r", "y", ".", "c", "h", "a", "r", "g", "e" >>,
     << "b", "a", "t", "t", "e", "r", "y", ".", "r", "u", "n", "t", "i", "m", "e" >>,
     << "b", "a", "t", "t", "e", "r", "y", ".", "v", "o", "l", "t", "a", "g", "e" >>,
     << "i", "n", "p", "u", "t", ".", "v", "o", "l", "t", "a", "g", "e" >>,
     << "o", "u", "t", "p", "u", "t", ".", "v", "o", "l", "t", "a", "g", "e" >>,
     << "i", "n", "p", "u", "t", ".", "f", "r", "e", "q", "u", "e", "n", "c", "y" >>,
     << "o", "u", "t", "p", "u", "t", ".", "f", "r", "e", "q", "u", "e", "n", "c", "y" >> >>

\* the fields of UpsInfo filled from the keys, in the same order
WellKnownFields ==
  << "status", "model", "manufacturer", "serial", "ups_type", "load_percent", "realpower_watts", "battery_charge_percent", "battery_runtime_seconds", "battery_voltage", "input_voltage", "output_voltage", "input_frequency_hz", "output_frequency_hz" >>

\* vars after the first n calls of `take`
RECURSIVE vars_after(_, _)
vars_after(table, n) ==
  IF n = 0 THEN table ELSE map_remove(vars_after(table, n - 1), WellKnownKeys[n])

\* vars_left, but the keys are read without being removed
vars_left_all(table) == table

\* what is left of vars when `extra` is collected
vars_left(table) == vars_after(table, Len(WellKnownKeys))

\* UpsInfo::from_var_map
from_var_map(ups_name, table) ==
  LET take(i) ==
        IF WellKnownKeys[i] \in DOMAIN vars_after(table, i - 1)
        THEN Some(vars_after(table, i - 1)[WellKnownKeys[i]])
        ELSE None
  IN
  [ups_name |-> ups_name,
     status |-> take(1),
     model |-> take(2),
     manufacturer |-> take(3),
     serial |-> take(4),
     ups_type |-> take(5),
     load_percent |-> take(6),
     realpower_watts |-> take(7),
     battery_charge_percent |-> take(8),
     battery_runtime_seconds |-> take(9),
     battery_voltage |-> take(10),
     input_voltage |-> take(11),
     output_voltage |-> take(12),
     input_frequency_hz |-> take(13),
     output_frequency_hz |-> take(14),
     extra |-> sorted_status(vars_left(table))]

\* ------------------------------------------------------------------------
\* What the server may answer to the polling loop
\* ------------------------------------------------------------------------
nl(s) == s \o << LF >>
crlf(s) == s \o << CR, LF >>
quoted(s) == << QUOTE >> \o s \o << QUOTE >>
words(a, b) == a \o << SP >> \o b

devA == << "a" >>
devB == << "b" >>
varX == << "x" >>
varY == << "y" >>

\* the escaping of the server that strip_quotes undoes: a backslash before
\* every quote and every backslash
RECURSIVE escape(_)
escape(s) ==
  IF Len(s) = 0 THEN << >>
  ELSE (IF s[1] \in { QUOTE, BSLASH } THEN << BSLASH, s[1] >> ELSE << s[1] >>)
         \o escape(Tail(s))

ups_line(name, desc) == kUPS_ \o words(name, quoted(desc))
var_line(dev, name, value) == kVAR_ \o words(dev, words(name, quoted(value)))

\* replies to LIST UPS: no device, one device, two devices, the connection
\* closed at once, a reply that is not a list
PollUpsWires ==
  { << nl(kBEGIN_LIST_UPS), nl(kEND_LIST_UPS) >>,
    << nl(kBEGIN_LIST_UPS), nl(ups_line(devA, << "d" >>)), nl(kEND_LIST_UPS) >>,
    << nl(kBEGIN_LIST_UPS), nl(ups_line(devA, << "d" >>)),
       crlf(ups_line(devB, << "d", " ", "e" >>)), nl(kEND_LIST_UPS) >>,
    << >>,
    << nl(<< "E", "R", "R" >>) >> }

\* replies to LIST VAR <dev>: one variable with one value or another, the
\* connection closed in the middle of the list
PollVarWires(dev) ==
  { << nl(words(kBEGIN_LIST_VAR, dev)), nl(var_line(dev, varX, << "1" >>)),
       nl(words(kEND_LIST_VAR, dev)) >>,
    << nl(words(kBEGIN_LIST_VAR, dev)), nl(var_line(dev, varX, << "0" >>)),
       nl(words(kEND_LIST_VAR, dev)) >>,
    << nl(words(kBEGIN_LIST_VAR, dev)), nl(var_line(dev, varX, << "1" >>)) >> }

\* what the user has entered and what the server does during a connect
\* attempt
ConnectInput(tcp, username, password, wire, wfail) ==
  [tcp |-> tcp, username |-> username, password |-> password, wire |-> wire,
   wfail |-> wfail]

userU == << "u" >>
passP == << "p" >>
kERR == << "E", "R", "R" >>

\* the connect attempts of a session: refused, accepted with both
\* credentials, closed by the server instead of the reply to PASSWORD
SessionConnects ==
  { ConnectInput(FALSE, userU, passP, << >>, 0),
    ConnectInput(TRUE, userU, passP, << nl(kOK), nl(kOK) >>, 0),
    ConnectInput(TRUE, userU, passP, << nl(kOK) >>, 0) }

\* ------------------------------------------------------------------------
\* State
\* ------------------------------------------------------------------------
Ids == 1..MaxAttempts

VARIABLES
  connecting,   \* Connect::connecting
  conn_error,   \* Connect::error (None or the message)
  monitor,      \* Nut::monitor (None or the Monitor)
  view,         \* the screen the runtime rendered last
  task,         \* per connect attempt: the attempt and the polling task of its client
  inbox,        \* messages produced by tasks and not yet passed to Nut::update
  next_id,      \* number of connect attempts started
  observed,     \* per polling loop: its events passed to Nut::update so far
  cancelled,    \* polling loops whose session was ended by Message::Disconnect
  batch,        \* "tasks" while the runtime collects task messages of a batch,
                \* "ui" once it handles the messages of the widgets
  steps         \* number of steps taken
VARIABLES
  fn_in,        \* a protocol operation called on its own: the operation and its input
  fn_out        \* None, or what the operation returned

VARIABLES
  checker,         \* the PathLengthChecker
  scan,            \* per scan started: the task of start_scan
  token_cancelled, \* the scans whose CancellationToken is cancelled
  scan_inbox,      \* messages of tasks not yet passed to PathLengthChecker::update
  next_scan,       \* number of scans started
  dialogs,         \* folder dialogs that are open
  scan_view,       \* what the view rendered last offers
  scan_batch,      \* as batch, for the scanner's window
  disk,            \* the directories under the folder the user can select
  scan_steps       \* number of steps the scanner has taken

vars == << connecting, conn_error, monitor, view, task, inbox, next_id, observed,
           cancelled, batch, steps, fn_in, fn_out, checker, scan, token_cancelled,
           scan_inbox, next_scan, dialogs, scan_view, scan_batch, disk, scan_steps >>

scan_vars == << checker, scan, token_cancelled, scan_inbox, next_scan, dialogs, scan_view,
                scan_batch, disk, scan_steps >>

ctl_vars == << connecting, conn_error, monitor, view, task, inbox, next_id, observed,
               cancelled, batch, steps >>
fn_vars == << fn_in, fn_out >>

\* commands on the wire
CmdListUps == << "LIST UPS" >>
CmdListVar(dev) == << "LIST VAR", dev >>

\* events of a polling loop
EvInfo(info) == [type |-> "Info", info |-> info]
EvError(err) == [type |-> "Error", err |-> err]

\* Message::Select of the pick list
EvSelect(name) == [type |-> "Select", name |-> name]

\* a task that has not been created
NoTask ==
  [pc |-> "none", conn |-> None, list |-> << >>, idx |-> 0, info |-> EmptyMap,
   cmds |-> << >>, replies |-> << >>, ended |-> << >>, tables |-> << >>,
   produced |-> << >>]

\* the polling task is running (it holds the client and may act again)
LoopActive(l) == task[l].pc \in { "list_ups_wait", "query_wait", "sleep" }

\* io::Error::to_string
to_string(err) == err.msg


\* the value of a decimal digit
DigitOf(c) ==
  CHOOSE d \in 0..9 : << "0", "1", "2", "3", "4", "5", "6", "7", "8", "9" >>[d + 1] = c

RECURSIVE digits_value(_)
digits_value(s) ==
  IF Len(s) = 0 THEN 0
  ELSE 10 * digits_value(SubSeq(s, 1, Len(s) - 1)) + DigitOf(s[Len(s)])

\* ------------------------------------------------------------------------
\* path_length_checker.rs: the checker and the task of start_scan
\* ------------------------------------------------------------------------
ScanIds == 1..MaxScans

\* ScanStatus
WaitingForStart == [kind |-> "WaitingForStart"]
Scanning(token) == [kind |-> "Scanning", token |-> token]
Done == [kind |-> "Done"]

is_scanning(st) == st.kind = "Scanning"

\* ScanStatus::cancel: the status after it and the tokens it cancels
ScanStatus_cancel(st) ==
  IF st.kind = "Scanning" THEN [status |-> Done, cancels |-> { st.token }]
  ELSE [status |-> st, cancels |-> {}]

\* OverLimit of an entry: its path and the length of the path
OverLimit(path) == [path |-> path, size |-> Len(path)]

\* limit.parse::<usize>(): None for a text that is no number; the texts
\* here are far below the width of usize
parse_usize(text) ==
  LET digits == IF Len(text) >= 1 /\ text[1] = "+" THEN Tail(text) ELSE text IN
  IF /\ Len(digits) >= 1
     /\ \A i \in 1..Len(digits) :
          digits[i] \in { "0", "1", "2", "3", "4", "5", "6", "7", "8", "9" }
  THEN Some(digits_value(digits))
  ELSE None

\* PathLengthChecker::new
PathLengthChecker_new ==
  [selecting |-> FALSE, selected |-> None, scan_status |-> WaitingForStart,
   paths_over_limit |-> << >>, scanned |-> 0, limit_input |-> << "2", "4", "0" >>,
   limit |-> 240, scan_limit |-> 240, errors |-> << >>, exporting |-> FALSE,
   export_message |-> None, export_success |-> FALSE]

\* Message of path_length_checker.rs
MsgSelectedFolder(folder) == [type |-> "SelectedFolder", folder |-> folder]
MsgScanComplete == [type |-> "ScanComplete"]
MsgError(what, path) == [type |-> "Error", err |-> << what, path >>]
MsgScanUpdate(now_scanned, new_paths_over_limit) ==
  [type |-> "ScanUpdate", now_scanned |-> now_scanned,
   new_paths_over_limit |-> new_paths_over_limit]

\* the folder the dialog offers and the paths under it
Root == << "r" >>
PathA == << "r", "/", "a" >>
PathBB == << "r", "/", "b", "b" >>
PathAC == << "r", "/", "a", "/", "c" >>

\* a directory entry: its path, whether it is a directory, and whether
\* entry.metadata() succeeds; and the failure of entries.next_entry()
DirEntry(path, is_dir, meta_ok) ==
  [kind |-> "entry", path |-> path, is_dir |-> is_dir, meta_ok |-> meta_ok]
NextEntryErr == [kind |-> "err"]

\* the disks: per directory the result of fs::read_dir, None for an error.
\* One with a single file; one with a directory and a file in it; one with
\* a directory that cannot be read, a file without metadata and a listing
\* that breaks off
Disks ==
  { [d \in { Root, PathA } |->
       IF d = Root THEN Some(<< DirEntry(PathBB, FALSE, TRUE) >>) ELSE Some(<< >>)],
    [d \in { Root, PathA } |->
       IF d = Root THEN Some(<< DirEntry(PathA, TRUE, TRUE) >>)
       ELSE Some(<< DirEntry(PathAC, FALSE, TRUE) >>)],
    [d \in { Root, PathA } |->
       IF d = Root THEN Some(<< DirEntry(PathA, TRUE, TRUE), DirEntry(PathBB, FALSE, FALSE),
                               NextEntryErr, DirEntry(PathAC, FALSE, TRUE) >>)
       ELSE None] }

\* what the user types into the limit field
LimitTexts == { << "3" >> }

\* a scan that has not been started
NoScan ==
  [pc |-> "none", limit |-> 0, stack |-> << >>, entries |-> None, scanned |-> 0,
   over_limit |-> << >>, produced |-> << >>, visited |-> << >>]

\* the sipper of start_scan before its first await
StartedScan(root, limit) ==
  [NoScan EXCEPT !.pc = "running", !.limit = limit, !.stack = << root >>]

\* sender.send(..) and the end of the sipper: one more message
ScanEmit(t, msg) == [t EXCEPT !.produced = Append(@, msg)]

\* the ReadDir after an entry was taken: None once next_entry() has returned
\* Ok(None) or an error, which ends `while let Ok(Some(entry))`
RestOfDir(entries) ==
  IF Len(entries) = 0 \/ entries[1].kind = "err" THEN None ELSE Some(entries)

\* `while let Some(path) = stack.pop()` up to the first entry of the
\* directory: read_dir, or, with an empty stack, the last ScanUpdate and the
\* end of the sipper, which Task::sip turns into ScanComplete
ScanPopped(t, listing) ==
  IF Len(t.stack) = 0
  THEN [ScanEmit(ScanEmit(t, MsgScanUpdate(t.scanned, t.over_limit)), MsgScanComplete)
          EXCEPT !.over_limit = << >>, !.pc = "finished"]
  ELSE LET path == t.stack[Len(t.stack)]
           t1 == [t EXCEPT !.stack = SubSeq(@, 1, Len(@) - 1)]
       IN IF listing[path] = None
          THEN ScanEmit(t1, MsgError("read_dir", path))
          ELSE [t1 EXCEPT !.entries = RestOfDir(listing[path][1])]

\* body of `while let Ok(Some(entry)) = entries.next_entry().await` for one
\* entry; elapsed tells whether more than 100 ms have passed since the
\* last update
ScanVisited(t, elapsed) ==
  LET entry == t.entries[1][1]
      t1 == [t EXCEPT !.over_limit = IF Len(entry.path) > t.limit
                                     THEN Append(@, OverLimit(entry.path)) ELSE @,
                      !.stack = IF entry.meta_ok /\ entry.is_dir
                                THEN Append(@, entry.path) ELSE @,
                      !.scanned = @ + 1,
                      !.visited = Append(@, entry.path),
                      !.entries = RestOfDir(Tail(t.entries[1]))]
      t2 == IF entry.meta_ok THEN t1 ELSE ScanEmit(t1, MsgError("metadata", entry.path))
  IN IF elapsed
     THEN [ScanEmit(t2, MsgScanUpdate(t2.scanned, t2.over_limit)) EXCEPT !.over_limit = << >>]
     ELSE t2

\* token.run_until_cancelled(..) returns None: the scan is dropped, the
\* sipper ends and Task::sip sends ScanComplete
ScanDropped(t) == [ScanEmit(t, MsgScanComplete) EXCEPT !.pc = "dropped"]

\* the messages t2 has produced beyond t1, as messages of scan l
NewScanMessages(l, t1, t2) ==
  [i \in 1..(Len(t2.produced) - Len(t1.produced)) |->
     [src |-> l, msg |-> t2.produced[Len(t1.produced) + i]]]

\* one step of the task of scan l, from scan[l] to t2
ScanStep(l, t2) ==
  /\ scan' = [scan EXCEPT ![l] = t2]
  /\ scan_inbox' = scan_inbox \o NewScanMessages(l, scan[l], t2)
  /\ UNCHANGED << checker, token_cancelled, next_scan, dialogs, scan_view, scan_batch, disk >>
  /\ scan_steps < MaxScanSteps /\ scan_steps' = scan_steps + 1
  /\ UNCHANGED << ctl_vars, fn_vars >>

\* the scan takes the next directory from the stack, or ends
ScanPop(l) ==
  /\ scan[l].pc = "running"
  /\ l \notin token_cancelled
  /\ scan[l].entries = None
  /\ ScanStep(l, ScanPopped(scan[l], disk))

\* the scan visits the next entry of the directory
ScanEntry(l) ==
  /\ scan[l].pc = "running"
  /\ l \notin token_cancelled
  /\ scan[l].entries # None
  /\ \E elapsed \in BOOLEAN : ScanStep(l, ScanVisited(scan[l], elapsed))

\* the cancelled scan is polled
ScanCancelled(l) ==
  /\ scan[l].pc = "running"
  /\ l \in token_cancelled
  /\ ScanStep(l, ScanDropped(scan[l]))

\* the folder dialog of SelectFolder is closed, with or without a folder
DialogClosed ==
  /\ dialogs > 0
  /\ dialogs' = dialogs - 1
  /\ \E folder \in { None, Some(Root) } :
       scan_inbox' = Append(scan_inbox, [src |-> 0, msg |-> MsgSelectedFolder(folder)])
  /\ UNCHANGED << checker, scan, token_cancelled, next_scan, scan_view, scan_batch, disk >>
  /\ scan_steps < MaxScanSteps /\ scan_steps' = scan_steps + 1
  /\ UNCHANGED << ctl_vars, fn_vars >>

\* what PathLengthChecker::view offers: Select Folder, Start Scan, Abort
PathLengthChecker_view ==
  [select |-> ~checker.selecting,
   start |-> checker.selected # None /\ ~is_scanning(checker.scan_status),
   abort |-> is_scanning(checker.scan_status)]

\* the runtime rebuilds the view after a batch of messages
ScanRender ==
  /\ scan_view # PathLengthChecker_view \/ scan_batch = "ui"
  /\ scan_view' = PathLengthChecker_view
  /\ scan_batch' = "tasks"
  /\ UNCHANGED << checker, scan, token_cancelled, scan_inbox, next_scan, dialogs, disk >>
  /\ scan_steps < MaxScanSteps /\ scan_steps' = scan_steps + 1
  /\ UNCHANGED << ctl_vars, fn_vars >>

\* Message::SelectFolder, pressed on the rendered view
UISelectFolder ==
  /\ scan_view.select
  /\ dialogs < MaxDialogs
  /\ checker' = [checker EXCEPT !.selecting = TRUE]
  /\ dialogs' = dialogs + 1
  /\ scan_batch' = "ui"
  /\ UNCHANGED << scan, token_cancelled, scan_inbox, next_scan, scan_view, disk >>
  /\ scan_steps < MaxScanSteps /\ scan_steps' = scan_steps + 1
  /\ UNCHANGED << ctl_vars, fn_vars >>

\* Message::LimitChanged, typed into the limit field
UILimitChanged ==
  /\ \E text \in LimitTexts :
       /\ checker.limit_input # text
       /\ checker' = [checker EXCEPT !.limit_input = text,
                                     !.limit = IF parse_usize(text) # None
                                               THEN parse_usize(text)[1] ELSE @]
  /\ scan_batch' = "ui"
  /\ UNCHANGED << scan, token_cancelled, scan_inbox, next_scan, dialogs, scan_view, disk >>
  /\ scan_steps < MaxScanSteps /\ scan_steps' = scan_steps + 1
  /\ UNCHANGED << ctl_vars, fn_vars >>

\* the checker after Message::StartScan with a folder selected
StartedChecker(c, token) ==
  [c EXCEPT !.scan_status = Scanning(token), !.paths_over_limit = << >>,
            !.errors = << >>, !.scanned = 0, !.export_message = None,
            !.scan_limit = c.limit]

\* Message::StartScan: the Start Scan button of the rendered view, or the
\* enter key in the limit field, which is offered at any time
UIStartScan ==
  /\ IF checker.selected # None
     THEN /\ next_scan < MaxScans
          /\ next_scan' = next_scan + 1
          /\ token_cancelled' =
               token_cancelled \cup ScanStatus_cancel(checker.scan_status).cancels
          /\ checker' = StartedChecker(checker, next_scan + 1)
          /\ scan' = [scan EXCEPT ![next_scan + 1] =
                                     StartedScan(checker.selected[1], checker.limit)]
     ELSE UNCHANGED << next_scan, token_cancelled, checker, scan >>
  /\ scan_batch' = "ui"
  /\ UNCHANGED << scan_inbox, dialogs, scan_view, disk >>
  /\ scan_steps < MaxScanSteps /\ scan_steps' = scan_steps + 1
  /\ UNCHANGED << ctl_vars, fn_vars >>

\* PathLengthChecker::cancel_scan
cancel_scan ==
  /\ checker' = [checker EXCEPT !.scan_status = ScanStatus_cancel(@).status]
  /\ token_cancelled' = token_cancelled \cup ScanStatus_cancel(checker.scan_status).cancels

\* Message::AbortScan, pressed on the rendered view
UIAbortScan ==
  /\ scan_view.abort
  /\ cancel_scan
  /\ scan_batch' = "ui"
  /\ UNCHANGED << scan, scan_inbox, next_scan, dialogs, scan_view, disk >>
  /\ scan_steps < MaxScanSteps /\ scan_steps' = scan_steps + 1
  /\ UNCHANGED << ctl_vars, fn_vars >>

\* a message of a task is passed to PathLengthChecker::update; the message
\* SelectedFolder holds the only reference to its file handle, so that
\* Arc::into_inner gives the handle
HandleScanMessage ==
  /\ scan_batch = "tasks"
  /\ scan_inbox # << >>
  /\ scan_inbox' = Tail(scan_inbox)
  /\ LET msg == Head(scan_inbox).msg IN
     IF msg.type = "SelectedFolder"
     THEN /\ checker' = IF msg.folder # None
                        THEN [checker EXCEPT !.selecting = FALSE,
                                             !.selected = msg.folder,
                                             !.scan_status = WaitingForStart]
                        ELSE [checker EXCEPT !.selecting = FALSE]
          /\ UNCHANGED token_cancelled
     ELSE IF msg.type = "ScanComplete"
     THEN cancel_scan
     ELSE IF msg.type = "Error"
     THEN /\ checker' = [checker EXCEPT !.errors = Append(@, msg.err)]
          /\ UNCHANGED token_cancelled
     ELSE /\ checker' = [checker EXCEPT !.scanned = msg.now_scanned,
                                        !.paths_over_limit = @ \o msg.new_paths_over_limit]
          /\ UNCHANGED token_cancelled
  /\ UNCHANGED << scan, next_scan, dialogs, scan_view, scan_batch, disk >>
  /\ scan_steps < MaxScanSteps /\ scan_steps' = scan_steps + 1
  /\ UNCHANGED << ctl_vars, fn_vars >>

\* a disk without the folder
NoDisk == [d \in {} |-> None]

\* the scanner at construction, beside one of the given disks
ScanIdle(disks) ==
  /\ checker = PathLengthChecker_new
  /\ scan = [l \in ScanIds |-> NoScan]
  /\ token_cancelled = {}
  /\ scan_inbox = << >>
  /\ next_scan = 0
  /\ dialogs = 0
  /\ scan_view = [select |-> TRUE, start |-> FALSE, abort |-> FALSE]
  /\ scan_batch = "tasks"
  /\ disk \in disks
  /\ scan_steps = 0

ScanInit ==
  /\ ScanIdle(Disks)
  /\ connecting = FALSE
  /\ conn_error = None
  /\ monitor = None
  /\ view = "form"
  /\ task = [l \in Ids |-> NoTask]
  /\ inbox = << >>
  /\ next_id = 0
  /\ observed = [l \in Ids |-> << >>]
  /\ cancelled = {}
  /\ batch = "tasks"
  /\ steps = 0
  /\ fn_in = None
  /\ fn_out = None

ScanNext ==
  \/ UISelectFolder
  \/ UILimitChanged
  \/ UIStartScan
  \/ UIAbortScan
  \/ ScanRender
  \/ HandleScanMessage
  \/ DialogClosed
  \/ \E l \in ScanIds : ScanPop(l)
  \/ \E l \in ScanIds : ScanEntry(l)
  \/ \E l \in ScanIds : ScanCancelled(l)

SpecScan == ScanInit /\ [][ScanNext]_vars

\* ------------------------------------------------------------------------
\* nut/monitor.rs: the polling task created by Monitor::new
\* ------------------------------------------------------------------------
\* sender.send(..) and the final result of the sipper: one more event
Emit(t, ev) == [t EXCEPT !.produced = Append(@, ev)]

\* the `?` after list_ups / list_vars_raw: the sipper ends with the error,
\* which Task::sip turns into Message::Error
Fail(t, err) == [Emit(t, EvError(err)) EXCEPT !.pc = "failed"]

\* BeginTick, but every tick after the first asks for the devices again
BeginTick_relist(t) ==
  LET t0 == [t EXCEPT !.idx = 0, !.info = EmptyMap,
                      !.cmds = IF t.pc = "sleep" THEN Append(@, CmdListUps) ELSE @] IN
  IF Len(t0.list) = 0
  THEN [Emit(t0, EvInfo(t0.info)) EXCEPT !.pc = "sleep"]
  ELSE [t0 EXCEPT !.pc = "query_wait",
                  !.cmds = Append(@, CmdListVar(t0.list[1][1]))]

\* top of `loop { .. }` up to the next await: a fresh info; with devices the
\* first LIST VAR is sent, without any the empty info is sent at once
BeginTick(t) ==
  LET t0 == [t EXCEPT !.idx = 0, !.info = EmptyMap] IN
  IF Len(t0.list) = 0
  THEN [Emit(t0, EvInfo(t0.info)) EXCEPT !.pc = "sleep"]
  ELSE [t0 EXCEPT !.pc = "query_wait",
                  !.cmds = Append(@, CmdListVar(t0.list[1][1]))]

\* AfterVars, but a device keeps the entry of the info sent before
AfterVars_stale(t, r) ==
  IF ~r.ok THEN Fail(t, r.err)
  ELSE LET name == t.list[t.idx + 1][1]
           entry == IF Len(t.produced) > 0
                    THEN t.produced[Len(t.produced)].info[name]
                    ELSE sorted_status(r.val)
           t1 == [t EXCEPT !.info = map_insert(@, name, entry), !.idx = @ + 1]
       IN IF t1.idx = Len(t1.list)
          THEN [Emit(t1, EvInfo(t1.info)) EXCEPT !.pc = "sleep"]
          ELSE [t1 EXCEPT !.pc = "query_wait",
                          !.cmds = Append(@, CmdListVar(t1.list[t1.idx + 1][1]))]

\* AfterVars, but a device whose query failed is skipped
AfterVars_skip(t, r) ==
  LET name == t.list[t.idx + 1][1]
      t1 == [t EXCEPT !.info = IF r.ok THEN map_insert(@, name, sorted_status(r.val)) ELSE @,
                      !.idx = @ + 1]
  IN IF t1.idx = Len(t1.list)
     THEN [Emit(t1, EvInfo(t1.info)) EXCEPT !.pc = "sleep"]
     ELSE [t1 EXCEPT !.pc = "query_wait",
                     !.cmds = Append(@, CmdListVar(t1.list[t1.idx + 1][1]))]

\* AfterVars, but the info is sent after every device
AfterVars_eager(t, r) ==
  IF ~r.ok THEN Fail(t, r.err)
  ELSE LET name == t.list[t.idx + 1][1]
           t1 == Emit([t EXCEPT !.info = map_insert(@, name, sorted_status(r.val)),
                                !.idx = @ + 1],
                      EvInfo(map_insert(t.info, name, sorted_status(r.val))))
       IN IF t1.idx = Len(t1.list)
          THEN [t1 EXCEPT !.pc = "sleep"]
          ELSE [t1 EXCEPT !.pc = "query_wait",
                          !.cmds = Append(@, CmdListVar(t1.list[t1.idx + 1][1]))]

\* body of `for (name, _desc) in &list` once list_vars_raw has returned r,
\* up to the next await: insert, then the next LIST VAR or sender.send(info)
AfterVars(t, r) ==
  IF ~r.ok THEN Fail(t, r.err)
  ELSE LET name == t.list[t.idx + 1][1]
           t1 == [t EXCEPT !.info = map_insert(@, name, sorted_status(r.val)),
                           !.idx = @ + 1]
       IN IF t1.idx = Len(t1.list)
          THEN [Emit(t1, EvInfo(t1.info)) EXCEPT !.pc = "sleep"]
          ELSE [t1 EXCEPT !.pc = "query_wait",
                          !.cmds = Append(@, CmdListVar(t1.list[t1.idx + 1][1]))]

\* AfterListUps, but after a failure the loop goes on without devices
AfterListUps_retry(t, r) ==
  IF ~r.ok THEN BeginTick(Emit(t, EvError(r.err))) ELSE BeginTick([t EXCEPT !.list = r.val])

\* after `client.list_ups().await`
AfterListUps(t, r) ==
  IF ~r.ok THEN Fail(t, r.err) ELSE BeginTick([t EXCEPT !.list = r.val])

\* the events t2 has produced beyond t1, as messages of loop l
NewMessages(l, t1, t2) ==
  [i \in 1..(Len(t2.produced) - Len(t1.produced)) |->
     [type |-> "Monitor", src |-> l, ev |-> t2.produced[Len(t1.produced) + i]]]

\* the last line a protocol operation has read is the line that ends the list
ReadToEnd(wire, r, endp) ==
  r.nread >= 1 /\ starts_with(trim_eol(wire[r.nread]), endp)

\* one step of polling task l, from task[l] to t2; r is the result of the
\* protocol operation that returned in this step, if any, e tells whether
\* it has read its reply up to the END line, and tb is the variable table it
\* has returned, if any
LoopStep(l, t2, r, e, tb) ==
  /\ task' = [task EXCEPT ![l] = [t2 EXCEPT !.replies = task[l].replies \o r,
                                            !.ended = task[l].ended \o e,
                                            !.tables = task[l].tables \o tb]]
  /\ inbox' = inbox \o NewMessages(l, task[l], t2)
  /\ steps < MaxSteps /\ steps' = steps + 1
  /\ UNCHANGED << fn_vars, scan_vars >>
  /\ UNCHANGED << connecting, conn_error, monitor, view, next_id, observed, cancelled,
                  batch >>

\* the reply to LIST UPS arrives
LoopListUpsReply(l) ==
  /\ task[l].pc = "list_ups_wait"
  /\ \E wire \in PollUpsWires :
       LoopStep(l, AfterListUps(task[l], list_ups(wire)), << list_ups(wire).ok >>,
                << ReadToEnd(wire, list_ups(wire), kEND_LIST_UPS) >>, << >>)

\* the reply to LIST VAR arrives
LoopListVarReply(l) ==
  /\ task[l].pc = "query_wait"
  /\ LET name == task[l].list[task[l].idx + 1][1] IN
     \E wire \in PollVarWires(name) :
       LoopStep(l, AfterVars(task[l], list_vars_raw(name, wire)),
                << list_vars_raw(name, wire).ok >>,
                << ReadToEnd(wire, list_vars_raw(name, wire), kEND_LIST_VAR) >>,
                IF list_vars_raw(name, wire).ok
                THEN << list_vars_raw(name, wire).val >> ELSE << >>)

\* sleep(Duration::from_secs(2)) is over
LoopWake(l) ==
  /\ task[l].pc = "sleep"
  /\ LoopStep(l, BeginTick(task[l]), << >>, << >>, << >>)


\* ------------------------------------------------------------------------
\* nut/monitor.rs: Monitor
\* ------------------------------------------------------------------------
\* the task::Handle returned by Task::abortable(): it aborts its task when it
\* is dropped only after Handle::abort_on_drop, which Monitor::new does not call
new_handle(l) == [task |-> l, abort_on_drop |-> FALSE]

\* Monitor::new: the monitor; its task is spawned by the caller's runtime
Monitor_new(l) ==
  [status |-> EmptyMap, list |-> << >>, error |-> None, selected |-> None,
   drop_handle |-> new_handle(l)]

\* SpawnedLoop, but the task is never run
SpawnedLoop_none(conn) == NoTask

\* the polling task at its first await: it owns the client, with the
\* connection conn in it, and LIST UPS has been sent
SpawnedLoop(conn) ==
  [NoTask EXCEPT !.pc = "list_ups_wait", !.conn = conn, !.cmds = << CmdListUps >>]

\* the orders in which HashMap::keys may yield the keys
KeyOrders(S) ==
  { f \in [1..Cardinality(S) -> S] : \A i, j \in 1..Cardinality(S) : f[i] = f[j] => i = j }

\* Monitor_update, but an error clears what is displayed
Monitor_update_clear(m, ev, order) ==
  IF ev.type = "Info"
  THEN [m EXCEPT !.list = order, !.status = ev.info]
  ELSE IF ev.type = "Error"
  THEN [m EXCEPT !.error = Some(to_string(ev.err)), !.list = << >>, !.status = EmptyMap]
  ELSE [m EXCEPT !.selected = Some(ev.name)]

\* Monitor::update; order is the order in which info.keys() yields the keys
Monitor_update(m, ev, order) ==
  IF ev.type = "Info"
  THEN [m EXCEPT !.list = order, !.status = ev.info]
  ELSE IF ev.type = "Error"
  THEN [m EXCEPT !.error = Some(to_string(ev.err))]
  ELSE [m EXCEPT !.selected = Some(ev.name)]

\* drop_monitor, but without a monitor every running task is aborted
drop_monitor_all(m, tasks) ==
  IF m = None
  THEN [l \in DOMAIN tasks |->
          IF tasks[l].pc \in { "list_ups_wait", "query_wait", "sleep" }
          THEN [tasks[l] EXCEPT !.pc = "aborted"]
          ELSE tasks[l]]
  ELSE tasks

\* dropping a Monitor drops its handle
drop_monitor(m, tasks) ==
  IF m # None /\ m[1].drop_handle.abort_on_drop
     /\ tasks[m[1].drop_handle.task].pc \in { "list_ups_wait", "query_wait", "sleep" }
  THEN [tasks EXCEPT ![m[1].drop_handle.task].pc = "aborted"]
  ELSE tasks

dropped(m) == IF m = None THEN {} ELSE { m[1].drop_handle.task }

\* ------------------------------------------------------------------------
\* nut.rs and nut/connect.rs: the controller
\* ------------------------------------------------------------------------
\* Nut::view / Connect::view: the screen for the current state
Nut_view ==
  IF monitor # None THEN "monitor"
  ELSE IF connecting THEN "form_connecting" ELSE "form"

\* The runtime handles messages in batches: the messages of tasks that have
\* arrived, then the messages of the widgets of the view rendered last, and
\* only then it rebuilds the view from the new state.
Render ==
  /\ view # Nut_view \/ batch = "ui"
  /\ view' = Nut_view
  /\ batch' = "tasks"
  /\ steps < MaxSteps /\ steps' = steps + 1
  /\ UNCHANGED << fn_vars, scan_vars >>
  /\ UNCHANGED << connecting, conn_error, monitor, task, inbox, next_id, observed, cancelled >>

\* Message::Connect(connect::Message::Connect), pressed on the rendered form
UIConnect ==
  /\ view = "form"
  /\ next_id < MaxAttempts
  /\ next_id' = next_id + 1
  /\ conn_error' = None
  /\ connecting' = TRUE
  /\ task' = [task EXCEPT ![next_id + 1].pc = "connecting"]
  /\ batch' = "ui"
  /\ steps < MaxSteps /\ steps' = steps + 1
  /\ UNCHANGED << fn_vars, scan_vars >>
  /\ UNCHANGED << monitor, view, inbox, observed, cancelled >>

\* the future of Action::Run completes: NutClient::connect returned
AttemptDone(l) ==
  /\ task[l].pc = "connecting"
  /\ \E c \in SessionConnects :
       LET res == connect(c.tcp, c.username, c.password, c.wire, c.wfail) IN
       /\ inbox' = Append(inbox, [type |-> "ConnectResult", src |-> l, res |-> res])
       /\ task' = [task EXCEPT ![l].pc = IF res.ok THEN "connected" ELSE "conn_failed",
                               ![l].conn = Some(res)]
  /\ steps < MaxSteps /\ steps' = steps + 1
  /\ UNCHANGED << fn_vars, scan_vars >>
  /\ UNCHANGED << connecting, conn_error, monitor, view, next_id, observed, cancelled,
                  batch >>

\* Message::Connect(ConnectResult(..)) is handled
HandleConnectResult ==
  /\ batch = "tasks"
  /\ inbox # << >>
  /\ Head(inbox).type = "ConnectResult"
  /\ LET msg == Head(inbox) IN
     /\ inbox' = Tail(inbox)
     /\ connecting' = FALSE
     /\ IF msg.res.ok
        THEN /\ conn_error' = None
             /\ monitor' = Some(Monitor_new(msg.src))
             /\ task' = [drop_monitor(monitor, task) EXCEPT
                            ![msg.src] = SpawnedLoop(Some(msg.res))]
        ELSE /\ conn_error' = Some(to_string(msg.res.err))
             /\ UNCHANGED << monitor, task >>
  /\ steps < MaxSteps /\ steps' = steps + 1
  /\ UNCHANGED << fn_vars, scan_vars >>
  /\ UNCHANGED << view, next_id, observed, cancelled, batch >>

\* Message::Monitor(..) is handled
HandleMonitor ==
  /\ batch = "tasks"
  /\ inbox # << >>
  /\ Head(inbox).type = "Monitor"
  /\ LET msg == Head(inbox) IN
     /\ inbox' = Tail(inbox)
     /\ observed' = [observed EXCEPT ![msg.src] = Append(@, msg.ev)]
     /\ IF monitor # None
        THEN \E order \in KeyOrders(IF msg.ev.type = "Info" THEN DOMAIN msg.ev.info ELSE {}) :
               monitor' = Some(Monitor_update(monitor[1], msg.ev, order))
        ELSE UNCHANGED monitor
  /\ steps < MaxSteps /\ steps' = steps + 1
  /\ UNCHANGED << fn_vars, scan_vars >>
  /\ UNCHANGED << connecting, conn_error, view, task, next_id, cancelled, batch >>

\* Message::Disconnect, pressed on the rendered monitor screen
UIDisconnect ==
  /\ view = "monitor"
  /\ monitor' = None
  /\ task' = drop_monitor(monitor, task)
  /\ cancelled' = cancelled \cup dropped(monitor)
  /\ batch' = "ui"
  /\ steps < MaxSteps /\ steps' = steps + 1
  /\ UNCHANGED << fn_vars, scan_vars >>
  /\ UNCHANGED << connecting, conn_error, view, inbox, next_id, observed >>

Init ==
  /\ connecting = FALSE
  /\ conn_error = None
  /\ monitor = None
  /\ view = "form"
  /\ task = [l \in Ids |-> NoTask]
  /\ inbox = << >>
  /\ next_id = 0
  /\ observed = [l \in Ids |-> << >>]
  /\ cancelled = {}
  /\ batch = "tasks"
  /\ steps = 0
  /\ fn_in = None
  /\ fn_out = None
  /\ ScanIdle({ NoDisk })

Next ==
  \/ UIConnect
  \/ UIDisconnect
  \/ Render
  \/ HandleConnectResult
  \/ HandleMonitor
  \/ \E l \in Ids : AttemptDone(l)
  \/ \E l \in Ids : LoopListUpsReply(l)
  \/ \E l \in Ids : LoopListVarReply(l)
  \/ \E l \in Ids : LoopWake(l)

Spec == Init /\ [][Next]_vars


\* ------------------------------------------------------------------------
\* nut/connect.rs: Connect::update as a function of the form and the message
\* ------------------------------------------------------------------------
\* port.parse().unwrap_or(0) for a text without sign: the number when the
\* text is a u16 in decimal digits, 0 otherwise
parse_port(text) ==
  IF /\ Len(text) >= 1
     /\ \A i \in 1..Len(text) :
          text[i] \in { "0", "1", "2", "3", "4", "5", "6", "7", "8", "9" }
     /\ digits_value(text) <= 65535
  THEN digits_value(text)
  ELSE 0

\* messages of the form
MsgEdit(field, text) == [type |-> field, text |-> text]
MsgToggle == [type |-> "TogglePasswordVisibility"]
MsgConnect == [type |-> "Connect"]
MsgConnectResult(res) == [type |-> "ConnectResult", res |-> res]

\* connect::Action
ActNone == [kind |-> "None"]
ActRun(host, port, username, password) ==
  [kind |-> "Run",
   params |-> [host |-> host, port |-> port, username |-> username, password |-> password]]
ActClient(res) == [kind |-> "Client", client |-> res]

\* Connect_update, but an edit of a field clears the error
Connect_update_reset(c, msg) ==
  IF msg.type = "Host" THEN [c |-> [c EXCEPT !.host = msg.text, !.error = None], action |-> ActNone]
  ELSE IF msg.type = "Port"
  THEN [c |-> [c EXCEPT !.port = parse_port(msg.text), !.error = None], action |-> ActNone]
  ELSE IF msg.type = "Username"
  THEN [c |-> [c EXCEPT !.username = msg.text, !.error = None], action |-> ActNone]
  ELSE IF msg.type = "Password"
  THEN [c |-> [c EXCEPT !.password = msg.text, !.error = None], action |-> ActNone]
  ELSE IF msg.type = "TogglePasswordVisibility"
  THEN [c |-> [c EXCEPT !.show_password = ~@], action |-> ActNone]
  ELSE IF msg.type = "Connect"
  THEN [c |-> [c EXCEPT !.error = None, !.connecting = TRUE],
        action |-> ActRun(c.host, c.port, c.username, c.password)]
  ELSE IF msg.res.ok
  THEN [c |-> [c EXCEPT !.connecting = FALSE, !.error = None], action |-> ActClient(msg.res)]
  ELSE [c |-> [c EXCEPT !.connecting = FALSE, !.error = Some(to_string(msg.res.err))],
        action |-> ActNone]

\* Connect::update: the form after the message, and the action returned
Connect_update(c, msg) ==
  IF msg.type = "Host" THEN [c |-> [c EXCEPT !.host = msg.text], action |-> ActNone]
  ELSE IF msg.type = "Port"
  THEN [c |-> [c EXCEPT !.port = parse_port(msg.text)], action |-> ActNone]
  ELSE IF msg.type = "Username"
  THEN [c |-> [c EXCEPT !.username = msg.text], action |-> ActNone]
  ELSE IF msg.type = "Password"
  THEN [c |-> [c EXCEPT !.password = msg.text], action |-> ActNone]
  ELSE IF msg.type = "TogglePasswordVisibility"
  THEN [c |-> [c EXCEPT !.show_password = ~@], action |-> ActNone]
  ELSE IF msg.type = "Connect"
  THEN [c |-> [c EXCEPT !.error = None, !.connecting = TRUE],
        action |-> ActRun(c.host, c.port, c.username, c.password)]
  ELSE IF msg.res.ok
  THEN [c |-> [c EXCEPT !.connecting = FALSE, !.error = None], action |-> ActClient(msg.res)]
  ELSE [c |-> [c EXCEPT !.connecting = FALSE, !.error = Some(to_string(msg.res.err))],
        action |-> ActNone]

\* ------------------------------------------------------------------------
\* nut.rs: Nut::update as a function of the controller and the message
\* ------------------------------------------------------------------------
\* Message of nut.rs; a monitor message comes with the order in which
\* info.keys() will yield the keys
NutConnect(m) == [type |-> "Connect", msg |-> m]
NutMonitor(ev, order) == [type |-> "Monitor", ev |-> ev, order |-> order]
NutDisconnect == [type |-> "Disconnect"]

\* the Task<Message> returned to the runtime
TaskNone == [kind |-> "none"]
TaskConnect(params) == [kind |-> "connect", params |-> params]
TaskPoll(client, l) == [kind |-> "poll", client |-> client, handle |-> l]

\* Nut_update, but a monitor message without monitor resets the form
Nut_update_forget(n, msg, l) ==
  IF msg.type = "Connect"
  THEN LET u == Connect_update(n.connect, msg.msg) IN
       IF u.action.kind = "Run"
       THEN [nut |-> [n EXCEPT !.connect = u.c], task |-> TaskConnect(u.action.params)]
       ELSE IF u.action.kind = "Client"
       THEN [nut |-> [connect |-> u.c, monitor |-> Some(Monitor_new(l))],
             task |-> TaskPoll(u.action.client, l)]
       ELSE [nut |-> [n EXCEPT !.connect = u.c], task |-> TaskNone]
  ELSE IF msg.type = "Monitor"
  THEN IF n.monitor # None
       THEN [nut |-> [n EXCEPT !.monitor = Some(Monitor_update(@[1], msg.ev, msg.order))],
             task |-> TaskNone]
       ELSE [nut |-> [n EXCEPT !.connect.error = None, !.connect.connecting = FALSE],
             task |-> TaskNone]
  ELSE [nut |-> [n EXCEPT !.monitor = None], task |-> TaskNone]

\* Nut::update; l names the task of the monitor that Monitor::new creates
Nut_update(n, msg, l) ==
  IF msg.type = "Connect"
  THEN LET u == Connect_update(n.connect, msg.msg) IN
       IF u.action.kind = "Run"
       THEN [nut |-> [n EXCEPT !.connect = u.c], task |-> TaskConnect(u.action.params)]
       ELSE IF u.action.kind = "Client"
       THEN [nut |-> [connect |-> u.c, monitor |-> Some(Monitor_new(l))],
             task |-> TaskPoll(u.action.client, l)]
       ELSE [nut |-> [n EXCEPT !.connect = u.c], task |-> TaskNone]
  ELSE IF msg.type = "Monitor"
  THEN IF n.monitor # None
       THEN [nut |-> [n EXCEPT !.monitor = Some(Monitor_update(@[1], msg.ev, msg.order))],
             task |-> TaskNone]
       ELSE [nut |-> n, task |-> TaskNone]
  ELSE [nut |-> [n EXCEPT !.monitor = None], task |-> TaskNone]

\* ------------------------------------------------------------------------
\* eml.rs: quoted-printable
\* ------------------------------------------------------------------------
\* A text is a sequence of chars, a char is its Unicode scalar value, and a
\* byte is a number in 0..255.
cTAB == 9
cLF == 10
cSPACE == 32
cPLUS == 43
cZERO == 48
cEQ == 61
cREPLACEMENT == 65533

\* char::is_ascii
is_ascii(c) == c < 128

\* char::encode_utf8: the bytes of a char
encode_utf8(c) ==
  IF c < 128 THEN << c >>
  ELSE IF c < 2048 THEN << 192 + (c \div 64), 128 + (c % 64) >>
  ELSE IF c < 65536
  THEN << 224 + (c \div 4096), 128 + ((c \div 64) % 64), 128 + (c % 64) >>
  ELSE << 240 + (c \div 262144), 128 + ((c \div 4096) % 64), 128 + ((c \div 64) % 64),
          128 + (c % 64) >>

\* format!("={:02X}", byte): the equals sign and two upper-case hex digits
HexChar(n) == IF n < 10 THEN cZERO + n ELSE 55 + n
format_02X(byte) == << cEQ, HexChar(byte \div 16), HexChar(byte % 16) >>

\* needs_encode, but the equals sign is written as it is
needs_encode_plain_eq(byte) ==
  IF byte \in 33..126 THEN FALSE
  ELSE IF byte = cSPACE THEN FALSE
  ELSE IF byte = cTAB THEN FALSE
  ELSE TRUE

\* `let encode = match char_data[0] { .. }` of qp_encode
needs_encode(byte) ==
  IF byte = cEQ THEN TRUE
  ELSE IF byte \in 33..126 THEN FALSE
  ELSE IF byte = cSPACE THEN FALSE
  ELSE IF byte = cTAB THEN FALSE
  ELSE TRUE

RECURSIVE format_bytes(_)
format_bytes(bytes) ==
  IF Len(bytes) = 0 THEN << >> ELSE format_02X(bytes[1]) \o format_bytes(Tail(bytes))

\* one pass of the `for char in decoded.chars()` loop of qp_encode: what is
\* pushed to `encoded` for the char, and the counter after it
qp_encode_char(char, counter) ==
  LET width == IF ~is_ascii(char) THEN Len(encode_utf8(char)) * 3
               ELSE IF needs_encode(char) THEN 3 ELSE 1
      brk == IF width = 1 THEN counter = 75 ELSE counter > 75 - width
  IN [pushed |-> (IF brk THEN << cEQ, cLF >> ELSE << >>)
                   \o (IF width = 1 THEN << char >> ELSE format_bytes(encode_utf8(char))),
      counter |-> (IF brk THEN 0 ELSE counter) + width]

\* the loop of qp_encode from char i on: what it pushes to `encoded`
RECURSIVE qp_encode_loop(_, _, _)
qp_encode_loop(decoded, i, counter) ==
  IF i > Len(decoded) THEN << >>
  ELSE LET pass == qp_encode_char(decoded[i], counter)
       IN pass.pushed \o qp_encode_loop(decoded, i + 1, pass.counter)

\* qp_encode
qp_encode(decoded) == qp_encode_loop(decoded, 1, 0)

\* the value of a hex digit in either case, -1 for another char
hex_value(c) ==
  IF c \in 48..57 THEN c - 48
  ELSE IF c \in 65..70 THEN c - 55
  ELSE IF c \in 97..102 THEN c - 87
  ELSE -1

\* u8::from_str_radix(&hex, 16) for a text of two chars: two hex digits, or
\* a plus sign and one hex digit
from_str_radix_16(hex) ==
  IF hex[1] = cPLUS
  THEN IF hex_value(hex[2]) >= 0 THEN Some(hex_value(hex[2])) ELSE None
  ELSE IF hex_value(hex[1]) >= 0 /\ hex_value(hex[2]) >= 0
  THEN Some(16 * hex_value(hex[1]) + hex_value(hex[2]))
  ELSE None

\* one pass of the `while let Some(char) = chars.next()` loop of qp_decode at
\* char i: the bytes pushed to `decoded_raw` and the number of chars taken
\* from `chars`
qp_decode_char(encoded, i) ==
  IF encoded[i] # cEQ THEN [pushed |-> encode_utf8(encoded[i]), taken |-> 1]
  ELSE IF i + 1 > Len(encoded) THEN [pushed |-> << >>, taken |-> 1]
  ELSE IF encoded[i + 1] = cLF THEN [pushed |-> << >>, taken |-> 2]
  ELSE LET second_digit == IF i + 2 <= Len(encoded) THEN encoded[i + 2] ELSE cZERO
           byte == from_str_radix_16(<< encoded[i + 1], second_digit >>)
       IN [pushed |-> IF byte # None THEN << byte[1] >> ELSE << >>, taken |-> 3]

\* the loop of qp_decode from char i on: what it pushes to `decoded_raw`
RECURSIVE qp_decode_loop(_, _)
qp_decode_loop(encoded, i) ==
  IF i > Len(encoded) THEN << >>
  ELSE LET pass == qp_decode_char(encoded, i)
       IN pass.pushed \o qp_decode_loop(encoded, i + pass.taken)

\* the byte at position i, 0 past the end (0 continues no sequence)
byte_at(raw, i) == IF i <= Len(raw) THEN raw[i] ELSE 0

is_cont(b) == b \in 128..191

\* the bytes the second byte of a sequence may be, by its first byte
second_range(b) ==
  IF b = 224 THEN 160..191
  ELSE IF b = 237 THEN 128..159
  ELSE IF b = 240 THEN 144..191
  ELSE IF b = 244 THEN 128..143
  ELSE 128..191

\* the chunk of String::from_utf8_lossy at byte i: a valid sequence gives
\* its char, a maximal invalid part gives U+FFFD; and the bytes it takes
utf8_chunk(raw, i) ==
  LET b == raw[i]
      b2 == byte_at(raw, i + 1)
      b3 == byte_at(raw, i + 2)
      b4 == byte_at(raw, i + 3)
  IN
  IF b < 128 THEN [char |-> b, taken |-> 1]
  ELSE IF b \in 194..223
  THEN IF is_cont(b2) THEN [char |-> (b - 192) * 64 + (b2 - 128), taken |-> 2]
       ELSE [char |-> cREPLACEMENT, taken |-> 1]
  ELSE IF b \in 224..239
  THEN IF b2 \notin second_range(b) THEN [char |-> cREPLACEMENT, taken |-> 1]
       ELSE IF ~is_cont(b3) THEN [char |-> cREPLACEMENT, taken |-> 2]
       ELSE [char |-> (b - 224) * 4096 + (b2 - 128) * 64 + (b3 - 128), taken |-> 3]
  ELSE IF b \in 240..244
  THEN IF b2 \notin second_range(b) THEN [char |-> cREPLACEMENT, taken |-> 1]
       ELSE IF ~is_cont(b3) THEN [char |-> cREPLACEMENT, taken |-> 2]
       ELSE IF ~is_cont(b4) THEN [char |-> cREPLACEMENT, taken |-> 3]
       ELSE [char |-> (b - 240) * 262144 + (b2 - 128) * 4096 + (b3 - 128) * 64 + (b4 - 128),
             taken |-> 4]
  ELSE [char |-> cREPLACEMENT, taken |-> 1]

\* String::from_utf8_lossy from byte i on
RECURSIVE from_utf8_lossy_loop(_, _)
from_utf8_lossy_loop(raw, i) ==
  IF i > Len(raw) THEN << >>
  ELSE LET chunk == utf8_chunk(raw, i)
       IN << chunk.char >> \o from_utf8_lossy_loop(raw, i + chunk.taken)

\* qp_decode
qp_decode(encoded) == from_utf8_lossy_loop(qp_decode_loop(encoded, 1), 1)

\* ------------------------------------------------------------------------
\* The protocol operations on their own: each is called once on a reply
\* drawn from the lines below
\* ------------------------------------------------------------------------
BoundedSeq(S, n) == UNION { [1..k -> S] : k \in 0..n }

\* body lines of a reply to LIST UPS
UpsBodyLines ==
  { nl(ups_line(devA, << "d" >>)),
    crlf(ups_line(devB, << "d", " ", "e" >>)),
    nl(ups_line(devA, << "e" >>)),
    nl(kUPS_ \o devA),
    nl(var_line(devA, varX, << "1" >>)) }

\* body lines of a reply to LIST VAR
VarBodyLines ==
  { nl(var_line(devA, varX, << "1" >>)),
    crlf(var_line(devA, varX, << "0" >>)),
    nl(var_line(devB, varY, << "0" >>)),
    nl(kVAR_ \o words(devA, varY)),
    nl(kVAR_ \o devB),
    nl(ups_line(devA, << "d" >>)) }

\* replies: a first line, body lines, and the END line unless the server
\* closes the connection before it
Replies(begin, body, end) ==
  { << first >> \o b \o e :
      first \in { nl(begin), nl(<< "E", "R", "R" >>) },
      b \in BoundedSeq(body, MaxBody),
      e \in { << nl(end) >>, << >> } }

\* keys and values of the variable tables given to from_var_map
TableKeys ==
  { WellKnownKeys[1], WellKnownKeys[8], WellKnownKeys[14], varX, << "a", ".", "b" >> }
TableValues == { << "0" >>, << "1" >> }
Tables == UNION { [D -> TableValues] : D \in SUBSET TableKeys }

\* the texts given to strip_quotes: values the server has escaped and
\* quoted, and the same values as they are
ValueChars == { QUOTE, BSLASH, "a" }
Values == BoundedSeq(ValueChars, MaxStr)
RawValues == { quoted(escape(v)) : v \in Values } \cup Values

\* lines the server sends during the handshake, and what it sends before it
\* closes the connection or waits for more
AuthLines == { nl(kOK), crlf(words(kOK, << "x" >>)), nl(kERR) }
AuthReplies == BoundedSeq(AuthLines, MaxBody)

\* connect attempts: every combination of empty and non-empty credentials,
\* of replies and of the write that fails
ConnectInputs ==
  { ConnectInput(tcp, u, pw, w, wfail) :
      tcp \in BOOLEAN, u \in { << >>, userU }, pw \in { << >>, passP },
      w \in AuthReplies, wfail \in 0..2 }

\* snapshots: for each device of a set its sorted variables
StatusTables == { << >>, << << varX, << "1" >> >> >> }
Snapshots == UNION { [D -> StatusTables] : D \in SUBSET { devA, devB } }

\* monitors as Monitor::update has left them, and the messages it is given
\* together with an order of the keys
Monitors ==
  { [status |-> st, list |-> ls, error |-> e, selected |-> sel, drop_handle |-> new_handle(1)] :
      st \in Snapshots, ls \in UNION { KeyOrders(DOMAIN x) : x \in Snapshots },
      e \in { None, Some(to_string(ErrClosed)) },
      sel \in { None, Some(devA), Some(devB) } }
MonitorMessages ==
  { [ev |-> EvInfo(st), order |-> o] : st \in Snapshots, o \in UNION { KeyOrders(DOMAIN x) : x \in Snapshots } }
  \cup { [ev |-> EvError(e), order |-> << >>] : e \in { ErrClosed, ErrUnexpected(kERR) } }
  \cup { [ev |-> EvSelect(d), order |-> << >>] : d \in { devA, devB } }

\* forms as Connect::update has left them (Connect clears the error when it
\* sets the flag, a result clears the flag), and the messages it is given
Forms ==
  { c \in [host : { << >>, << "h" >> }, port : { 0, 3493 }, username : { << >>, userU },
           password : { << >>, passP }, show_password : BOOLEAN, connecting : BOOLEAN,
           error : { None, Some(to_string(ErrRefused)) }] :
      ~(c.connecting /\ c.error # None) }
FormMessages ==
  { MsgEdit(f, t) : f \in { "Host", "Username", "Password" },
                    t \in { << >>, << "h" >>, userU } }
  \cup { MsgEdit("Port", t) : t \in { << >>, << "1", "0" >>, << "x" >> } }
  \cup { MsgToggle, MsgConnect,
          MsgConnectResult(HsOk(0, << >>)), MsgConnectResult(HsErr(ErrClosed, 0, << >>)) }

\* controllers: any form, without monitor, with the monitor of a connect
\* that has just succeeded, or with a monitor that shows a device; and the
\* messages Nut::update is given
Nuts ==
  { [connect |-> c, monitor |-> m] :
      c \in Forms,
      m \in { None, Some(Monitor_new(1)),
              Some([Monitor_new(1) EXCEPT
                      !.status = [d \in { devA } |-> << << varX, << "1" >> >> >>],
                      !.list = << devA >>]) } }
NutMessages ==
  { NutMonitor(x.ev, x.order) :
      x \in { y \in MonitorMessages :
                y.ev.type = "Info" => y.order \in KeyOrders(DOMAIN y.ev.info) } }
  \cup { NutDisconnect, NutConnect(MsgConnect),
         NutConnect(MsgConnectResult(HsOk(0, << >>))) }

\* texts for qp_encode: a letter, the equals sign, a line break, a space,
\* chars of two, three and four bytes, after as many letters as bring the
\* line to the lengths at which qp_encode breaks it
QpChars == { 97, cEQ, cLF, cSPACE, 233, 8364, 128512 }
QpPads == { 0, 63, 64, 67, 70, 73, 75 }
QpTexts == { [i \in 1..k |-> 97] \o t : k \in QpPads, t \in BoundedSeq(QpChars, MaxQp) }

\* texts for qp_decode that no encoder has written: broken escapes, a sign,
\* lower-case digits, bytes that are no UTF-8
QpEncoded == BoundedSeq({ cEQ, cLF, cPLUS, 52, 65, 102, 120 }, MaxQp)

FnInputs ==
  { [op |-> "strip_quotes", raw |-> r] : r \in RawValues }
  \cup
  { [op |-> "qp_encode", decoded |-> t] : t \in QpTexts }
  \cup
  { [op |-> "qp_decode", encoded |-> t] : t \in QpEncoded }
  \cup
  { [op |-> "Nut_update", nut |-> n, msg |-> msg] : n \in Nuts, msg \in NutMessages }
  \cup
  { [op |-> "Connect_update", c |-> c, msg |-> msg] : c \in Forms, msg \in FormMessages }
  \cup
  { [op |-> "Monitor_update", m |-> m, msg |-> msg] :
      m \in { x \in Monitors : x.list \in KeyOrders(DOMAIN x.status) },
      msg \in { x \in MonitorMessages :
                  x.ev.type = "Info" => x.order \in KeyOrders(DOMAIN x.ev.info) } }
  \cup
  { [op |-> "connect", args |-> c] : c \in ConnectInputs }
  \cup
  { [op |-> "list_ups", wire |-> w] : w \in Replies(kBEGIN_LIST_UPS, UpsBodyLines, kEND_LIST_UPS) }
  \cup { [op |-> "list_vars_raw", ups_name |-> d, wire |-> w] :
           d \in { devA, devB },
           w \in Replies(words(kBEGIN_LIST_VAR, devA), VarBodyLines, words(kEND_LIST_VAR, devA)) }
  \cup { [op |-> "from_var_map", ups_name |-> devA, table |-> m] : m \in Tables }

FnInit ==
  /\ fn_in \in FnInputs
  /\ fn_out = None
  /\ connecting = FALSE
  /\ conn_error = None
  /\ monitor = None
  /\ view = "form"
  /\ task = [l \in Ids |-> NoTask]
  /\ inbox = << >>
  /\ next_id = 0
  /\ observed = [l \in Ids |-> << >>]
  /\ cancelled = {}
  /\ batch = "tasks"
  /\ steps = 0
  /\ ScanIdle({ NoDisk })

Call_list_ups ==
  /\ fn_out = None
  /\ fn_in.op = "list_ups"
  /\ fn_out' = Some(list_ups(fn_in.wire))
  /\ UNCHANGED << fn_in, ctl_vars, scan_vars >>

Call_list_vars_raw ==
  /\ fn_out = None
  /\ fn_in.op = "list_vars_raw"
  /\ fn_out' = Some(list_vars_raw(fn_in.ups_name, fn_in.wire))
  /\ UNCHANGED << fn_in, ctl_vars, scan_vars >>

Call_from_var_map ==
  /\ fn_out = None
  /\ fn_in.op = "from_var_map"
  /\ fn_out' = Some(from_var_map(fn_in.ups_name, fn_in.table))
  /\ UNCHANGED << fn_in, ctl_vars, scan_vars >>

Call_strip_quotes ==
  /\ fn_out = None
  /\ fn_in.op = "strip_quotes"
  /\ fn_out' = Some(strip_quotes(fn_in.raw))
  /\ UNCHANGED << fn_in, ctl_vars, scan_vars >>

Call_connect ==
  /\ fn_out = None
  /\ fn_in.op = "connect"
  /\ fn_out' = Some(connect(fn_in.args.tcp, fn_in.args.username, fn_in.args.password,
                            fn_in.args.wire, fn_in.args.wfail))
  /\ UNCHANGED << fn_in, ctl_vars, scan_vars >>

Call_Monitor_update ==
  /\ fn_out = None
  /\ fn_in.op = "Monitor_update"
  /\ fn_out' = Some(Monitor_update(fn_in.m, fn_in.msg.ev, fn_in.msg.order))
  /\ UNCHANGED << fn_in, ctl_vars, scan_vars >>

Call_Connect_update ==
  /\ fn_out = None
  /\ fn_in.op = "Connect_update"
  /\ fn_out' = Some(Connect_update(fn_in.c, fn_in.msg))
  /\ UNCHANGED << fn_in, ctl_vars, scan_vars >>

Call_Nut_update ==
  /\ fn_out = None
  /\ fn_in.op = "Nut_update"
  /\ fn_out' = Some(Nut_update(fn_in.nut, fn_in.msg, 2))
  /\ UNCHANGED << fn_in, ctl_vars, scan_vars >>

Call_qp_encode ==
  /\ fn_out = None
  /\ fn_in.op = "qp_encode"
  /\ fn_out' = Some(qp_encode(fn_in.decoded))
  /\ UNCHANGED << fn_in, ctl_vars, scan_vars >>

Call_qp_decode ==
  /\ fn_out = None
  /\ fn_in.op = "qp_decode"
  /\ fn_out' = Some(qp_decode(fn_in.encoded))
  /\ UNCHANGED << fn_in, ctl_vars, scan_vars >>

FnNext ==
  \/ Call_strip_quotes
  \/ Call_qp_encode
  \/ Call_qp_decode
  \/ Call_Nut_update
  \/ Call_Connect_update
  \/ Call_Monitor_update
  \/ Call_connect
  \/ Call_list_ups
  \/ Call_list_vars_raw
  \/ Call_from_var_map

SpecFn == FnInit /\ [][FnNext]_vars


\* ------------------------------------------------------------------------
\* Properties of the polling loop and the controller
\* ------------------------------------------------------------------------
InfoCount(evs) == Cardinality({ i \in 1..Len(evs) : evs[i].type = "Info" })
ErrorCount(evs) == Cardinality({ i \in 1..Len(evs) : evs[i].type = "Error" })
IsPrefix(s, t) == Len(s) <= Len(t) /\ SubSeq(t, 1, Len(s)) = s

\* number of LIST VAR commands of task t answered successfully
OkQueries(t) == Cardinality({ i \in 2..Len(t.replies) : t.replies[i] })

\* a LIST VAR command of task t has failed
QueryFailed(t) == \E i \in 2..Len(t.replies) : ~t.replies[i]

\* C1: when list_vars_raw fails for a device, the tick it belongs to emits no
\* snapshot (the snapshots emitted are those of the complete ticks before
\* it, also when earlier devices of the tick had answered), the one event
\* emitted for it is the error, and the loop has terminated without sending
\* another command.
C1_NoPartialSnapshot ==
  \A l \in Ids :
    LET t == task[l] IN
    QueryFailed(t) =>
      /\ t.pc = "failed"
      /\ \A i \in 1..(Len(t.replies) - 1) : t.replies[i]
      /\ Len(t.cmds) = Len(t.replies)
      /\ InfoCount(t.produced) = (Len(t.replies) - 2) \div Len(t.list)
      /\ ErrorCount(t.produced) = 1
      /\ t.produced[Len(t.produced)].type = "Error"

\* the second device of a tick fails after the first one had answered
C1_Witness ==
  \E l \in Ids :
    /\ Len(task[l].list) = 2
    /\ task[l].replies = << TRUE, TRUE, FALSE >>
    /\ task[l].pc = "failed"
    /\ InfoCount(task[l].produced) = 0

\* C2: once Disconnect has been handled for a session, its polling loop
\* emits no further snapshot and sends no further command (the one request
\* that may be in flight has been sent already).
C2_StopsAfterDisconnect ==
  [][\A l \in cancelled :
       /\ task'[l].cmds = task[l].cmds
       /\ InfoCount(task'[l].produced) = InfoCount(task[l].produced)]_vars

\* C3: at most one polling loop is active, and no client is held by a connect
\* attempt and a polling loop at once.
C3_SingleLoop ==
  /\ Cardinality({ l \in Ids : LoopActive(l) }) <= 1
  /\ \A l \in Ids : ~(task[l].pc = "connecting" /\ LoopActive(l))

\* C4: a polling loop emits at most one error event, the error is emitted
\* when it fails and is its last event, and a loop whose session was
\* cancelled emits no error event.
C4_OneTerminalError ==
  [][\A l \in Ids :
       /\ ErrorCount(task'[l].produced) <= 1
       /\ task[l].pc = "failed" => task'[l].produced = task[l].produced
       /\ (task[l].pc # "failed" /\ task'[l].pc = "failed") =>
            /\ ErrorCount(task'[l].produced) = 1
            /\ task'[l].produced[Len(task'[l].produced)].type = "Error"
       /\ l \in cancelled =>
            ErrorCount(task'[l].produced) = ErrorCount(task[l].produced)]_vars

\* C5: handling Disconnect while Connected leaves no monitor and the connect
\* form with the Connect action enabled.
C5_DisconnectEnablesConnect ==
  [][(monitor # None /\ monitor' = None) => Nut_view' = "form"]_vars

\* C6: the events of a polling loop are passed to the consumer in the order
\* the loop produced them, and a snapshot is produced only when every device
\* of its tick has been queried successfully; it holds the captured devices.
C6_OrderedEmission ==
  \A l \in Ids :
    LET t == task[l] IN
    /\ IsPrefix(observed[l], t.produced)
    /\ InfoCount(t.produced) * Len(t.list) <= OkQueries(t)
    /\ \A i \in 1..Len(t.produced) :
         t.produced[i].type = "Info" =>
           DOMAIN t.produced[i].info = { t.list[k][1] : k \in 1..Len(t.list) }

\* a snapshot and then the error of the next tick, both observed in that order
C6_Witness ==
  \E l \in Ids :
    /\ Len(observed[l]) = 2
    /\ observed[l][1].type = "Info"
    /\ DOMAIN observed[l][1].info = { devA }
    /\ observed[l][2].type = "Error"

\* C7: a connect result handled while a monitor exists is discarded: the
\* monitor stays and no polling loop is started.
C7_LateResultDiscarded ==
  [][(/\ monitor # None
      /\ inbox # << >>
      /\ Head(inbox).type = "ConnectResult"
      /\ inbox' = Tail(inbox))
     => (monitor' = monitor /\ \A l \in Ids : LoopActive(l)' => LoopActive(l))]_vars


\* ------------------------------------------------------------------------
\* Properties of the protocol operations
\* ------------------------------------------------------------------------
\* the lines of a reply as read_line returns them
Lines(wire) == [i \in 1..Len(wire) |-> trim_eol(wire[i])]

\* the lines between the first line and the first line with prefix endp
BodyOf(wire, endp) ==
  LET ls == Lines(wire)
      e == CHOOSE i \in 2..Len(ls) :
             /\ starts_with(ls[i], endp)
             /\ \A j \in 2..(i - 1) : ~starts_with(ls[j], endp)
  IN SubSeq(ls, 2, e - 1)

\* the text up to the first space, and the text after it
FirstField(s) == IF find_char(s, SP) = 0 THEN s ELSE SubSeq(s, 1, find_char(s, SP) - 1)
AfterField(s) == SubSeq(s, find_char(s, SP) + 1, Len(s))

HasUpsPrefix(ln) == starts_with(ln, kUPS_)

\* C8: from_var_map loses and duplicates nothing: every key of the table
\* appears exactly once in the result, as its named field or as an entry of
\* extra, with the table's value, and the result holds no other key.
C8_ProjectionLossless ==
  (fn_out # None /\ fn_in.op = "from_var_map") =>
    LET res == fn_out[1]
        table == fn_in.table
        named(k) == { i \in 1..Len(WellKnownKeys) :
                        WellKnownKeys[i] = k /\ res[WellKnownFields[i]] # None }
        extras(k) == { j \in 1..Len(res.extra) : res.extra[j][1] = k }
    IN /\ \A k \in DOMAIN table :
            /\ Cardinality(named(k)) + Cardinality(extras(k)) = 1
            /\ \A i \in named(k) : res[WellKnownFields[i]] = Some(table[k])
            /\ \A j \in extras(k) : res.extra[j][2] = table[k]
       /\ \A i \in 1..Len(WellKnownKeys) :
            res[WellKnownFields[i]] # None => WellKnownKeys[i] \in DOMAIN table
       /\ \A j \in 1..Len(res.extra) : res.extra[j][1] \in DOMAIN table

\* a table with a well-known key and two other keys has been projected
C8_Witness ==
  /\ fn_out # None
  /\ fn_in.op = "from_var_map"
  /\ DOMAIN fn_in.table = { WellKnownKeys[8], varX, << "a", ".", "b" >> }
  /\ fn_out[1].battery_charge_percent = Some(<< "1" >>)
  /\ Len(fn_out[1].extra) = 2

\* C9: the table returned by list_vars_raw holds exactly the variables of the
\* body lines that name the requested device, each with the value of the
\* last such line; nothing of a line naming another device is in it.
C9_OtherDeviceDropped ==
  (fn_out # None /\ fn_in.op = "list_vars_raw" /\ fn_out[1].ok) =>
    LET body == BodyOf(fn_in.wire, kEND_LIST_VAR)
        mine == { i \in 1..Len(body) :
                    /\ starts_with(body[i], kVAR_)
                    /\ FirstField(AfterField(body[i])) = fn_in.ups_name }
        name(i) == FirstField(AfterField(AfterField(body[i])))
        value(i) == strip_quotes(AfterField(AfterField(AfterField(body[i]))))
        val == fn_out[1].val
    IN /\ DOMAIN val = { name(i) : i \in mine }
       /\ \A i \in mine :
            (\A j \in mine : name(j) = name(i) => j <= i) => val[name(i)] = value(i)

\* a reply for device a with a line of device b in it has been parsed
C9_Witness ==
  /\ fn_out # None
  /\ fn_in.op = "list_vars_raw"
  /\ fn_in.ups_name = devA
  /\ Len(fn_in.wire) = 4
  /\ fn_in.wire[2] = nl(var_line(devB, varY, << "0" >>))
  /\ fn_in.wire[3] = nl(var_line(devA, varX, << "1" >>))
  /\ fn_out[1].ok
  /\ fn_out[1].val = [k \in { varX } |-> << "1" >>]

\* C10: list_ups returns one (name, description) record per body line with
\* the prefix "UPS ", in the order of the lines, duplicates included; the
\* other body lines contribute nothing.
C10_DevicesInServerOrder ==
  (fn_out # None /\ fn_in.op = "list_ups" /\ fn_out[1].ok) =>
    LET ups == SelectSeq(BodyOf(fn_in.wire, kEND_LIST_UPS), HasUpsPrefix)
        val == fn_out[1].val
    IN /\ Len(val) = Len(ups)
       /\ \A i \in 1..Len(ups) :
            val[i] = << FirstField(AfterField(ups[i])),
                        strip_quotes(AfterField(AfterField(ups[i]))) >>

\* two lines naming the same device have been returned as two records
C10_Witness ==
  /\ fn_out # None
  /\ fn_in.op = "list_ups"
  /\ fn_out[1].ok
  /\ fn_out[1].val = << << devA, << "e" >> >>, << devA, << "d" >> >> >>

\* C11: when the first line of the reply to LIST UPS / LIST VAR lacks the
\* BEGIN prefix, the operation returns the error "Unexpected response: "
\* followed by that line, it has read that one line only, and it returns no
\* list or table.
C11_NoBeginNoResult ==
  (/\ fn_out # None
   /\ fn_in.op \in { "list_ups", "list_vars_raw" }
   /\ ~starts_with(Lines(fn_in.wire)[1],
                   IF fn_in.op = "list_ups" THEN kBEGIN_LIST_UPS ELSE kBEGIN_LIST_VAR))
  => /\ ~fn_out[1].ok
     /\ fn_out[1].err = ErrUnexpected(Lines(fn_in.wire)[1])
     /\ fn_out[1].nread = 1
     /\ "val" \notin DOMAIN fn_out[1]

\* LIST UPS was answered by ERR followed by a device line and the END line
C11_Witness ==
  /\ fn_out # None
  /\ fn_in.op = "list_ups"
  /\ fn_in.wire = << nl(<< "E", "R", "R" >>), nl(ups_line(devA, << "d" >>)),
                     nl(kEND_LIST_UPS) >>
  /\ ~fn_out[1].ok
  /\ fn_out[1].nread = 1

\* C12: strip_quotes returns v for the quoted, escaped form of every value v.
C12_UnescapeInvertsEscape ==
  (fn_out # None /\ fn_in.op = "strip_quotes") =>
    \A v \in Values : fn_in.raw = quoted(escape(v)) => fn_out[1] = v

\* the value \" (a backslash next to a quote) came back from its escaped form
C12_Witness ==
  /\ fn_out # None
  /\ fn_in.op = "strip_quotes"
  /\ fn_in.raw = << QUOTE, BSLASH, BSLASH, BSLASH, QUOTE, QUOTE >>
  /\ fn_out[1] = << BSLASH, QUOTE >>

\* the i-th line of the handshake is there and acknowledges a command
Acked(wire, i) == i <= Len(wire) /\ starts_with(Lines(wire)[i], kOK)

\* C13: the commands of the handshake depend on the parameters only: none
\* with an empty username; otherwise USERNAME first, before anything is read,
\* and PASSWORD exactly when the password is non-empty and USERNAME was
\* acknowledged by a line starting with OK, after that line and no other has
\* been read; connect succeeds exactly when every command sent was
\* acknowledged (a write that fails sends nothing and ends the handshake).
C13_HandshakeOrder ==
  (fn_out # None /\ fn_in.op = "connect" /\ fn_in.args.tcp) =>
    LET a == fn_in.args
        res == fn_out[1]
        user == Sent(CmdUsername(a.username), 0)
        pass == Sent(CmdPassword(a.password), 1)
    IN /\ a.username = << >> => (res.sent = << >> /\ res.ok /\ res.nread = 0)
       /\ (a.username # << >> /\ a.wfail = 1) => (res.sent = << >> /\ ~res.ok)
       /\ (a.username # << >> /\ a.wfail # 1) =>
            /\ res.sent \in { << user >>, << user, pass >> }
            /\ res.sent = << user, pass >> <=>
                 (a.password # << >> /\ Acked(a.wire, 1) /\ a.wfail # 2)
            /\ res.ok <=>
                 /\ \A i \in 1..Len(res.sent) : Acked(a.wire, i)
                 /\ a.password # << >> => Len(res.sent) = 2
            /\ res.ok => res.nread = Len(res.sent)

\* both credentials were sent and acknowledged, the first by "OK x"
C13_Witness ==
  /\ fn_out # None
  /\ fn_in.op = "connect"
  /\ fn_in.args.wire = << crlf(words(kOK, << "x" >>)), nl(kOK) >>
  /\ fn_out[1].ok
  /\ fn_out[1].sent = << Sent(CmdUsername(userU), 0), Sent(CmdPassword(passP), 1) >>

\* ------------------------------------------------------------------------
\* Properties of connecting and disconnecting
\* ------------------------------------------------------------------------
\* the connection was opened and its handshake has failed
HandshakeFailed(r) == ~r.ok /\ r.err # ErrRefused

\* the message handled in this step is the result of a connect attempt
ConnectResultHandled ==
  /\ inbox # << >>
  /\ Head(inbox).type = "ConnectResult"
  /\ inbox' = Tail(inbox)

\* the task has been started as a polling loop
Started(t) == t.pc \notin { "none", "connecting", "connected", "conn_failed" }

\* C14: when the handshake of an attempt fails, connect returns an error
\* classified as an authentication failure and no client, and no polling
\* loop is started on that connection: the task of the attempt never sends
\* a command of the polling loop.
C14_AuthFailureAborts ==
  \A l \in Ids :
    (task[l].conn # None /\ HandshakeFailed(task[l].conn[1])) =>
      /\ task[l].conn[1].err.kind = "AuthenticationFailed"
      /\ task[l].pc = "conn_failed"
      /\ task[l].cmds = << >>

\* C15: handling the result of a failed attempt leaves the controller not
\* connecting and without monitor, with the error as message and with no
\* new polling loop; a message is changed by a Connect request only.
C15_FailedAttemptKeepsError ==
  [][/\ (ConnectResultHandled /\ ~Head(inbox).res.ok) =>
          /\ ~connecting'
          /\ monitor' = None
          /\ conn_error' = Some(to_string(Head(inbox).res.err))
          /\ \A l \in Ids : LoopActive(l)' => LoopActive(l)
     /\ (conn_error # None /\ conn_error' # conn_error) =>
          (conn_error' = None /\ next_id' = next_id + 1)]_vars

\* C16: handling the result of a successful attempt starts exactly one
\* polling loop, the loop owns the connection of that attempt, and the
\* monitor stored holds the handle of that loop; a monitor appears in no
\* other way, and the monitor screen is shown exactly for a state that
\* holds the handle of a loop that was started.
C16_SuccessStartsOneLoop ==
  [][/\ (ConnectResultHandled /\ Head(inbox).res.ok) =>
          /\ monitor' # None
          /\ monitor'[1].drop_handle.task = Head(inbox).src
          /\ { l \in Ids : Started(task'[l]) /\ ~Started(task[l]) } = { Head(inbox).src }
          /\ task'[Head(inbox).src].pc = "list_ups_wait"
          /\ task'[Head(inbox).src].conn = Some(Head(inbox).res)
     /\ ~(ConnectResultHandled /\ Head(inbox).res.ok) =>
          /\ monitor' # None => (monitor # None /\ monitor'[1].drop_handle = monitor[1].drop_handle)
          /\ \A l \in Ids : Started(task'[l]) => Started(task[l])
     /\ (Nut_view' = "monitor") <=>
          (monitor' # None /\ Started(task'[monitor'[1].drop_handle.task]))]_vars

\* the second attempt of a session has succeeded and its loop is polling
C16_Witness ==
  /\ monitor # None
  /\ monitor[1].drop_handle.task = 2
  /\ task[2].pc = "query_wait"
  /\ task[2].conn = Some(HsOk(2, << Sent(CmdUsername(userU), 0), Sent(CmdPassword(passP), 1) >>))
  /\ task[1].pc = "conn_failed"

\* C17: a Disconnect handled without a monitor changes nothing of the
\* controller and starts or stops no task.
C17_DisconnectIdempotent ==
  [][(monitor = None /\ UIDisconnect) =>
       UNCHANGED << connecting, conn_error, monitor, task, inbox, next_id, observed,
                    cancelled >>]_vars

\* Disconnect has been pressed twice on the same monitor screen: the session
\* of the one attempt has taken the six steps up to the first Disconnect
\* and one more that has left no trace
C17_Witness ==
  /\ monitor = None
  /\ view = "monitor"
  /\ batch = "ui"
  /\ steps = 7
  /\ next_id = 1
  /\ task[1].pc = "list_ups_wait"
  /\ inbox = << >>

\* C18: on every connection at most one command is outstanding: a command is
\* sent only when every command before it has been answered, a protocol
\* operation that succeeded has read its reply up to the END line (the
\* handshake: one line per command), a failed operation is the last one of
\* its loop, and the polling loop sends its first command only after a
\* handshake that succeeded and has read every acknowledgement.
C18_OneOutstanding ==
  \A l \in Ids :
    LET t == task[l] IN
    /\ Len(t.cmds) - Len(t.replies) \in { 0, 1 }
    /\ Len(t.ended) = Len(t.replies)
    /\ \A i \in 1..Len(t.replies) :
         /\ t.replies[i] => t.ended[i]
         /\ ~t.replies[i] => (i = Len(t.replies) /\ Len(t.cmds) = i)
    /\ t.conn # None =>
         /\ \A i \in 1..Len(t.conn[1].sent) : t.conn[1].sent[i].at = i - 1
         /\ t.conn[1].nread \in { Len(t.conn[1].sent) - 1, Len(t.conn[1].sent) }
         /\ t.conn[1].ok => t.conn[1].nread = Len(t.conn[1].sent)
    /\ t.cmds # << >> => (t.conn # None /\ t.conn[1].ok)

\* after a handshake of two commands the loop has had LIST UPS and the first
\* LIST VAR answered and waits for the reply to the second LIST VAR
C18_Witness ==
  \E l \in Ids :
    /\ task[l].conn # None
    /\ Len(task[l].conn[1].sent) = 2
    /\ task[l].cmds = << CmdListUps, CmdListVar(devA), CmdListVar(devB) >>
    /\ task[l].replies = << TRUE, TRUE >>
    /\ task[l].pc = "query_wait"

\* C19: when the list_ups of a polling loop fails, the loop has terminated
\* with the error of list_ups as the only event it ever produces, and
\* LIST UPS is the only command it ever sends.
C19_ListUpsFailureTerminates ==
  \A l \in Ids :
    LET t == task[l] IN
    (Len(t.replies) >= 1 /\ ~t.replies[1]) =>
      /\ t.pc = "failed"
      /\ t.cmds = << CmdListUps >>
      /\ \E wire \in PollUpsWires :
           ~list_ups(wire).ok /\ t.produced = << EvError(list_ups(wire).err) >>
      /\ IsPrefix(observed[l], t.produced)

\* the reply ERR to LIST UPS has ended a loop, and its error was delivered
C19_Witness ==
  \E l \in Ids :
    /\ task[l].replies = << FALSE >>
    /\ task[l].pc = "failed"
    /\ observed[l] = << EvError(ErrUnexpected(kERR)) >>

\* C20: Monitor::update on an error event sets the error message to the text
\* of the error and leaves the snapshot table, the device list, the
\* selection and the handle as they were.
C20_ErrorKeepsSnapshot ==
  (fn_out # None /\ fn_in.op = "Monitor_update" /\ fn_in.msg.ev.type = "Error") =>
    /\ fn_out[1].error = Some(to_string(fn_in.msg.ev.err))
    /\ fn_out[1].status = fn_in.m.status
    /\ fn_out[1].list = fn_in.m.list
    /\ fn_out[1].selected = fn_in.m.selected
    /\ fn_out[1].drop_handle = fn_in.m.drop_handle

\* a monitor showing two devices, the second one selected, has been given
\* the error of a closed connection
C20_Witness ==
  /\ fn_out # None
  /\ fn_in.op = "Monitor_update"
  /\ fn_in.msg.ev = EvError(ErrClosed)
  /\ fn_in.m.list = << devB, devA >>
  /\ fn_in.m.selected = Some(devB)
  /\ fn_in.m.error = None
  /\ fn_out[1].error = Some(<< "Connection closed by server" >>)
  /\ fn_out[1].status = fn_in.m.status

\* C23: from_var_map agrees with a lookup in the table: each of the fourteen
\* named fields holds the value of its key when the table has the key and
\* is None otherwise, and extra holds exactly the entries of the other keys,
\* each once, in ascending order of the keys.
C23_ProjectionMatchesLookup ==
  (fn_out # None /\ fn_in.op = "from_var_map") =>
    LET res == fn_out[1]
        table == fn_in.table
        known == { WellKnownKeys[i] : i \in 1..Len(WellKnownKeys) }
        rest == DOMAIN table \ known
    IN /\ Len(WellKnownKeys) = 14
       /\ \A i \in 1..Len(WellKnownKeys) :
            res[WellKnownFields[i]] =
              IF WellKnownKeys[i] \in DOMAIN table THEN Some(table[WellKnownKeys[i]]) ELSE None
       /\ Len(res.extra) = Cardinality(rest)
       /\ { res.extra[j] : j \in 1..Len(res.extra) } = { << k, table[k] >> : k \in rest }
       /\ \A j \in 1..(Len(res.extra) - 1) : str_less(res.extra[j][1], res.extra[j + 1][1])
       /\ res.ups_name = fn_in.ups_name

\* a table with the first and the last well-known key and two other keys
C23_Witness ==
  /\ fn_out # None
  /\ fn_in.op = "from_var_map"
  /\ DOMAIN fn_in.table = { WellKnownKeys[1], WellKnownKeys[14], varX, << "a", ".", "b" >> }
  /\ fn_out[1].status = Some(<< "0" >>)
  /\ fn_out[1].output_frequency_hz = Some(<< "1" >>)
  /\ fn_out[1].battery_charge_percent = None
  /\ fn_out[1].extra = << << << "a", ".", "b" >>, << "1" >> >>, << varX, << "0" >> >> >>

\* the fields of the form that are the parameters of a connection
Params(c) ==
  [host |-> c.host, port |-> c.port, username |-> c.username, password |-> c.password]

\* C24: a Connect request returns the attempt with the parameters the form
\* has at that moment, as values of its own; an edit of host, port, username
\* or password returns no action, so that it reaches no attempt in flight,
\* changes the edited field only, and leaves the connecting flag and the
\* retained error as they are.
C24_ParamsFixedAtStart ==
  (fn_out # None /\ fn_in.op = "Connect_update") =>
    LET c == fn_in.c
        msg == fn_in.msg
        res == fn_out[1]
    IN /\ msg.type = "Connect" =>
            /\ res.action = [kind |-> "Run", params |-> Params(c)]
            /\ Params(res.c) = Params(c)
       /\ msg.type \in { "Host", "Port", "Username", "Password" } =>
            /\ res.action = ActNone
            /\ res.c.connecting = c.connecting
            /\ res.c.error = c.error
            /\ res.c.show_password = c.show_password
            /\ msg.type # "Host" => res.c.host = c.host
            /\ msg.type # "Port" => res.c.port = c.port
            /\ msg.type # "Username" => res.c.username = c.username
            /\ msg.type # "Password" => res.c.password = c.password

\* the username was edited while an attempt was in flight
C24_Witness ==
  /\ fn_out # None
  /\ fn_in.op = "Connect_update"
  /\ fn_in.c.connecting
  /\ fn_in.c.username = << >>
  /\ fn_in.msg = MsgEdit("Username", userU)
  /\ fn_out[1].c.username = userU
  /\ fn_out[1].c.connecting
  /\ fn_out[1].c.error = fn_in.c.error

\* the first k lines of a reply: the server closes the connection after them
Cut(wire, k) == SubSeq(wire, 1, k)

\* C25: when the connection is closed before a protocol operation has read
\* all the lines it reads of its reply (no line at all, or any number of
\* them), the operation fails with the error of read_line, "Connection
\* closed by server", as it is, at the read after the last line, and
\* returns no list or table.
C25_ClosedConnectionFails ==
  (fn_out # None /\ fn_in.op \in { "list_ups", "list_vars_raw", "connect" }) =>
    /\ (~fn_out[1].ok /\ fn_out[1].err = ErrClosed) =>
         (fn_out[1].nread = Len(IF fn_in.op = "connect" THEN fn_in.args.wire ELSE fn_in.wire)
          /\ "val" \notin DOMAIN fn_out[1])
    /\ \A k \in 0..(fn_out[1].nread - 1) :
         IF fn_in.op = "list_ups"
         THEN list_ups(Cut(fn_in.wire, k)) = Err(ErrClosed, k)
         ELSE IF fn_in.op = "list_vars_raw"
         THEN list_vars_raw(fn_in.ups_name, Cut(fn_in.wire, k)) = Err(ErrClosed, k)
         ELSE LET a == fn_in.args
                  r == connect(a.tcp, a.username, a.password, Cut(a.wire, k), a.wfail)
              IN ~r.ok /\ r.err = ErrClosed /\ r.nread = k

\* the connection was closed after the first variable of a reply to LIST VAR
C25_Witness ==
  /\ fn_out # None
  /\ fn_in.op = "list_vars_raw"
  /\ fn_in.ups_name = devA
  /\ fn_in.wire = << nl(words(kBEGIN_LIST_VAR, devA)), nl(var_line(devA, varX, << "1" >>)) >>
  /\ fn_out[1] = Err(ErrClosed, 2)

NumSpaces(s) == Cardinality({ i \in 1..Len(s) : s[i] = SP })

\* the list operation called, the prefix of the line that ends its list, and
\* whether a line is one of its entries with a field missing
IsListOp == fn_in.op \in { "list_ups", "list_vars_raw" }
EndPrefix == IF fn_in.op = "list_ups" THEN kEND_LIST_UPS ELSE kEND_LIST_VAR
BeginPrefix == IF fn_in.op = "list_ups" THEN kBEGIN_LIST_UPS ELSE kBEGIN_LIST_VAR
Incomplete(ln) ==
  IF fn_in.op = "list_ups"
  THEN starts_with(ln, kUPS_) /\ NumSpaces(ln) < 2
  ELSE /\ starts_with(ln, kVAR_)
       /\ FirstField(AfterField(ln)) = fn_in.ups_name
       /\ NumSpaces(ln) < 3

\* the lines after the first one that end the reading: the END line or an
\* incomplete entry
Stops(ls) == { i \in 2..Len(ls) : starts_with(ls[i], EndPrefix) \/ Incomplete(ls[i]) }
FirstStop(ls) == CHOOSE i \in Stops(ls) : \A j \in Stops(ls) : i <= j

\* C29: in a list that has begun, the first entry that lacks a field (a line
\* "UPS <name>" without description, a line "VAR <dev>" or "VAR <dev> <name>"
\* of the requested device), when it comes before the END line, makes the
\* operation fail at that line with the error naming the missing field and
\* without result; lines of other devices before it, complete or not, are
\* passed over, and so they are when the END line comes first.
C29_IncompleteEntryFails ==
  (/\ fn_out # None
   /\ IsListOp
   /\ starts_with(Lines(fn_in.wire)[1], BeginPrefix)
   /\ Stops(Lines(fn_in.wire)) # {}) =>
    LET ls == Lines(fn_in.wire)
        i == FirstStop(ls)
    IN /\ fn_out[1].nread = i
       /\ IF Incomplete(ls[i])
          THEN /\ ~fn_out[1].ok
               /\ "val" \notin DOMAIN fn_out[1]
               /\ fn_out[1].err =
                    ErrMissing(IF fn_in.op = "list_ups" THEN "Missing UPS desc"
                               ELSE IF NumSpaces(ls[i]) = 1 THEN "Missing var name"
                               ELSE "Missing var value")
          ELSE fn_out[1].ok

\* listVariables for device a has passed over the line "VAR b" and has
\* failed at "VAR a y"
C29_Witness ==
  /\ fn_out # None
  /\ fn_in.op = "list_vars_raw"
  /\ fn_in.ups_name = devA
  /\ Len(fn_in.wire) >= 3
  /\ fn_in.wire[2] = nl(kVAR_ \o devB)
  /\ fn_in.wire[3] = nl(kVAR_ \o words(devA, varY))
  /\ fn_out[1] = Err(ErrMissing("Missing var value"), 3)

\* C30: a list operation called on a reply that ends with the END line or
\* with the closing of the connection returns after reading no more than
\* the lines sent (every reply here is finite: after its last line the
\* connection is closed); it returns a
\* result only when the last line it has read is the first line with the END
\* prefix, however many body lines come before it; and without an END line
\* and without an incomplete entry it reads every line and fails when the
\* connection closes.
C30_ReturnsAtEndOrClose ==
  /\ (fn_out = None /\ IsListOp) =>
       LET r == IF fn_in.op = "list_ups" THEN list_ups(fn_in.wire)
                ELSE list_vars_raw(fn_in.ups_name, fn_in.wire)
       IN r.nread \in 0..Len(fn_in.wire)
  /\ (fn_out # None /\ IsListOp /\ starts_with(Lines(fn_in.wire)[1], BeginPrefix)) =>
       LET ls == Lines(fn_in.wire)
           ends == { i \in 2..Len(ls) : starts_with(ls[i], EndPrefix) }
       IN /\ fn_out[1].ok =>
               (fn_out[1].nread \in ends /\ \A j \in ends : fn_out[1].nread <= j)
          /\ (ends # {} /\ ~\E i \in Stops(ls) : Incomplete(ls[i])) => fn_out[1].ok
          /\ Stops(ls) = {} => fn_out[1] = Err(ErrClosed, Len(ls))

\* LIST UPS was answered by a list whose body lines, as many as the reply
\* has, are no devices: the operation has read them all and the END line
C30_Witness ==
  /\ fn_out # None
  /\ fn_in.op = "list_ups"
  /\ Len(fn_in.wire) = MaxBody + 2
  /\ \A i \in 2..(MaxBody + 1) : fn_in.wire[i] = nl(var_line(devA, varX, << "1" >>))
  /\ fn_out[1] = Ok(<< >>, MaxBody + 2)


\* C21: the first command of a polling loop is LIST UPS and it is the only
\* LIST UPS the loop sends; every later command is the LIST VAR of the next
\* entry of the captured list, in the captured order, tick after tick,
\* whatever the server answers; with an empty list nothing else is sent.
C21_ListUpsOnce ==
  \A l \in Ids :
    LET t == task[l] IN
    /\ t.cmds # << >> => t.cmds[1] = CmdListUps
    /\ Len(t.list) = 0 => Len(t.cmds) <= 1
    /\ \A i \in 2..Len(t.cmds) :
         t.cmds[i] = CmdListVar(t.list[((i - 2) % Len(t.list)) + 1][1])

\* a loop with two devices has begun its second tick
C21_Witness ==
  \E l \in Ids :
    task[l].cmds = << CmdListUps, CmdListVar(devA), CmdListVar(devB), CmdListVar(devA) >>

\* the snapshots a polling loop has emitted, in order
InfoEvents(l) == SelectSeq(task[l].produced, LAMBDA e : e.type = "Info")

\* the last entry of a device list with the given name
LastIndexOf(list, name) ==
  CHOOSE j \in 1..Len(list) :
    list[j][1] = name /\ \A i \in (j + 1)..Len(list) : list[i][1] # name

\* C22: the names of the k-th snapshot of a polling loop are the names of
\* the captured device list, and the entry of each device is the table
\* that LIST VAR has returned for it in the k-th tick (sorted for display).
C22_SnapshotCoversList ==
  \A l \in Ids :
    LET t == task[l]
        n == Len(t.list)
        infos == InfoEvents(l)
    IN \A k \in 1..Len(infos) :
         /\ DOMAIN infos[k].info = { t.list[j][1] : j \in 1..n }
         /\ \A name \in DOMAIN infos[k].info :
              infos[k].info[name] =
                sorted_status(t.tables[(k - 1) * n + LastIndexOf(t.list, name)])

\* a snapshot of two devices whose tables differ, and a second snapshot of a
\* device whose table has changed between the ticks
C22_Witness ==
  \E l \in Ids :
    LET infos == InfoEvents(l) IN
    \/ /\ Len(task[l].list) = 2
       /\ Len(infos) = 1
       /\ infos[1].info[devA] # infos[1].info[devB]
    \/ /\ Len(task[l].list) = 1
       /\ Len(infos) = 2
       /\ infos[1].info[devA] # infos[2].info[devA]


\* C27: Nut::update given a monitor message (snapshot, error or selection)
\* while there is no monitor returns the controller as it was: no monitor,
\* the fields of the connect form, its connecting flag and its error
\* unchanged, and no task for the runtime.
C27_MonitorEventWithoutMonitor ==
  (/\ fn_out # None
   /\ fn_in.op = "Nut_update"
   /\ fn_in.nut.monitor = None
   /\ fn_in.msg.type = "Monitor") =>
    /\ fn_out[1].nut.monitor = None
    /\ fn_out[1].nut.connect = fn_in.nut.connect
    /\ fn_out[1].task = TaskNone

\* a selection was delivered to a controller without monitor whose form
\* holds a host and the error of a failed attempt
C27_Witness ==
  /\ fn_out # None
  /\ fn_in.op = "Nut_update"
  /\ fn_in.nut.monitor = None
  /\ fn_in.msg.type = "Monitor"
  /\ fn_in.msg.ev.type = "Select"
  /\ fn_in.nut.connect.host # << >>
  /\ fn_in.nut.connect.error # None
  /\ fn_out[1].nut = fn_in.nut


\* C26: a snapshot or error event is applied to the monitor only when it
\* comes from the polling loop started together with that monitor; an event
\* of any other loop leaves the monitor as it is.
C26_EventsOfOwnLoopOnly ==
  [][(/\ monitor # None
      /\ inbox # << >>
      /\ Head(inbox).type = "Monitor"
      /\ inbox' = Tail(inbox)
      /\ Head(inbox).src # monitor[1].drop_handle.task)
     => monitor' = monitor]_vars

\* a connect attempt is in flight: NutClient::connect runs, or its result
\* waits to be handled
InFlight(l) ==
  \/ task[l].pc = "connecting"
  \/ \E i \in 1..Len(inbox) : inbox[i].type = "ConnectResult" /\ inbox[i].src = l

\* C28: at most one connect attempt is in flight; the connecting flag is
\* true exactly while one is, the rendered form offers Connect only while
\* the flag was false, and while the flag is true no error is retained.
C28_OneAttemptInFlight ==
  /\ Cardinality({ l \in Ids : InFlight(l) }) <= 1
  /\ connecting <=> \E l \in Ids : InFlight(l)
  /\ connecting => conn_error = None


\* a text holds a soft line break: the equals sign and the line feed
HasSoftBreak(t) == \E i \in 1..(Len(t) - 1) : t[i] = cEQ /\ t[i + 1] = cLF

\* C34: qp_decode gives back every text that qp_encode has encoded, be it
\* with equals signs, line breaks, chars outside ASCII, or long enough to be
\* broken into lines.
C34_DecodeInvertsEncode ==
  (fn_out # None /\ fn_in.op = "qp_encode") => qp_decode(fn_out[1]) = fn_in.decoded

\* a text with an equals sign, a line feed and a char of two bytes, long
\* enough for a soft line break, was encoded and decodes to itself
C34_Witness ==
  /\ fn_out # None
  /\ fn_in.op = "qp_encode"
  /\ \E i \in 1..Len(fn_in.decoded) : fn_in.decoded[i] = cEQ
  /\ \E i \in 1..Len(fn_in.decoded) : fn_in.decoded[i] = cLF
  /\ \E i \in 1..Len(fn_in.decoded) : fn_in.decoded[i] = 233
  /\ Len(fn_in.decoded) > 75
  /\ HasSoftBreak(fn_out[1])
  /\ qp_decode(fn_out[1]) = fn_in.decoded

\* ------------------------------------------------------------------------
\* Properties of the path-length scanner
\* ------------------------------------------------------------------------
\* the message of a task that PathLengthChecker::update is given in this step
ScanHandled(type) ==
  /\ scan_inbox # << >>
  /\ Head(scan_inbox).msg.type = type
  /\ scan_inbox' = Tail(scan_inbox)

\* C31: the ScanComplete of a scan other than the one held in the Scanning
\* status leaves the status and the token of the running scan as they are.
C31_StaleCompletionIgnored ==
  [][(/\ ScanHandled("ScanComplete")
      /\ is_scanning(checker.scan_status)
      /\ Head(scan_inbox).src # checker.scan_status.token)
     => /\ checker'.scan_status = checker.scan_status
        /\ checker.scan_status.token \notin token_cancelled']_vars

\* C32: a scan whose token is not cancelled and whose task runs is the scan
\* held in the Scanning status, and the token held there is not cancelled.
C32_OneLiveToken ==
  /\ \A l \in 1..next_scan :
       (l \notin token_cancelled /\ scan[l].pc = "running") =>
         checker.scan_status = Scanning(l)
  /\ is_scanning(checker.scan_status) => checker.scan_status.token \notin token_cancelled

\* the ScanUpdate messages of a scan, and the paths they carry, in order
UpdatesOf(t) == SelectSeq(t.produced, LAMBDA m : m.type = "ScanUpdate")
RECURSIVE PathsOf(_)
PathsOf(ups) ==
  IF Len(ups) = 0 THEN << >> ELSE ups[1].new_paths_over_limit \o PathsOf(Tail(ups))

\* the entries a scan has visited whose path is longer than its limit
OverLimitVisited(t) ==
  { OverLimit(t.visited[i]) : i \in { j \in 1..Len(t.visited) : Len(t.visited[j]) > t.limit } }

\* C33: when the ScanComplete of a scan that ran to its end, and whose token
\* nothing has cancelled, is handled, the
\* ScanUpdates of the scan carry every visited path over the limit once,
\* the last message before ScanComplete is a ScanUpdate whose now_scanned
\* is the number of entries visited, and the list of the checker holds
\* exactly the visited paths over the limit.
C33_CompleteScanDelivered ==
  [][\A l \in ScanIds :
       (/\ ScanHandled("ScanComplete")
        /\ Head(scan_inbox).src = l
        /\ scan[l].pc = "finished"
        /\ l \notin token_cancelled)
       => LET t == scan[l]
              paths == PathsOf(UpdatesOf(t))
              n == Len(t.produced)
          IN /\ { paths[i] : i \in 1..Len(paths) } = OverLimitVisited(t)
             /\ Len(paths) = Cardinality(OverLimitVisited(t))
             /\ t.produced[n] = MsgScanComplete
             /\ t.produced[n - 1].type = "ScanUpdate"
             /\ t.produced[n - 1].now_scanned = Len(t.visited)
             /\ { checker.paths_over_limit[i] : i \in 1..Len(checker.paths_over_limit) }
                  = OverLimitVisited(t)
             /\ Len(checker.paths_over_limit) = Cardinality(OverLimitVisited(t))]_vars

====
